---- MODULE Spec2Model ----
(***************************************************************************)
(* Model of the parts-sdk request pipeline of warpok-us/parts-search-saas:  *)
(* the data transformers, the retry strategies, the fetch-based HTTP client *)
(* and the PartsAPIClient orchestrator (executeRequest).                    *)
(***************************************************************************)
EXTENDS Integers, Sequences, FiniteSets, TLC

(***************************************************************************)
(* JavaScript values.  Every value is a record with the same four fields:   *)
(*   t  the kind: "null", "undefined", "num", "str", "date", "obj", "arr"   *)
(*   s  the characters of a string ("" for the other kinds)                 *)
(*   n  the number of a "num" (0 for the other kinds)                       *)
(*   c  the own enumerable entries <<[k, v], ...>> of an object, in         *)
(*      insertion order; the items of an array (k = "")                     *)
(* A "date" carries in s its instant, written as Date.prototype.toISOString *)
(* writes it; an Invalid Date (time value NaN) carries "Invalid Date".      *)
(***************************************************************************)
Null == [t |-> "null", s |-> "", n |-> 0, c |-> <<>>]
Undefined == [t |-> "undefined", s |-> "", n |-> 0, c |-> <<>>]
Num(i) == [t |-> "num", s |-> "", n |-> i, c |-> <<>>]
Str(x) == [t |-> "str", s |-> x, n |-> 0, c |-> <<>>]
DateV(instant) == [t |-> "date", s |-> instant, n |-> 0, c |-> <<>>]
InvalidDate == DateV("Invalid Date")
Obj(entries) == [t |-> "obj", s |-> "", n |-> 0, c |-> entries]
Arr(items) == [t |-> "arr", s |-> "", n |-> 0, c |-> [i \in DOMAIN items |-> [k |-> "", v |-> items[i]]]]
Entry(key, val) == [k |-> key, v |-> val]

\* The strings the bodies of the model carry in their date fields.
IsoA == "2024-01-01T00:00:00Z"
IsoAms == "2024-01-01T00:00:00.000Z"
IsoB == "2024-01-02T10:00:00Z"
NotADate == "not-a-date"

\* The instants IsoA (and IsoAms) and IsoB denote.
InstantA == "2024-01-01T00:00:00.000Z"
InstantB == "2024-01-02T10:00:00.000Z"

\* Date.parse on the strings of the model: whether the string parses, and the
\* instant it denotes when it does.
ParsesAsDate(x) == x \in {IsoA, IsoAms, IsoB}
DateParse(x) == IF x \in {IsoA, IsoAms} THEN InstantA ELSE InstantB

\* new Date(string): never throws; an unparseable string gives an Invalid Date.
NewDate(x) == IF ParsesAsDate(x) THEN DateV(DateParse(x)) ELSE InvalidDate

\* typeof v === 'object' && v !== null  (a Date is an object, not an array).
IsObjectType(v) == v.t \in {"obj", "arr", "date"}

\* JavaScript truthiness of a value.
Truthy(v) ==
    CASE v.t \in {"null", "undefined"} -> FALSE
      [] v.t = "num" -> v.n # 0
      [] v.t = "str" -> v.s # ""
      [] OTHER -> TRUE

\* { ...obj }: the own enumerable properties; a Date has none.
Spread(v) == IF v.t = "obj" THEN v.c ELSE <<>>

\* DateTransformer.dateFields and the legacy client's dateFields.
DateFields == {"createdAt", "updatedAt", "timestamp", "date"}
LegacyDateFields == {"createdAt", "updatedAt"}

\* The first loop of transform converting every non-empty string that parses
\* as a date, whatever the name of its field.
ConvertDateStrings(fields, entries) ==
    [i \in DOMAIN entries |->
        IF Truthy(entries[i].v) /\ entries[i].v.t = "str" /\ ParsesAsDate(entries[i].v.s)
        THEN Entry(entries[i].k, NewDate(entries[i].v.s))
        ELSE entries[i]]

\* The first loop of transform: each designated field holding a non-empty
\* string is replaced by new Date(string); the catch branch is never taken.
ConvertDateFields(fields, entries) ==
    [i \in DOMAIN entries |->
        IF entries[i].k \in fields /\ Truthy(entries[i].v) /\ entries[i].v.t = "str"
        THEN Entry(entries[i].k, NewDate(entries[i].v.s))
        ELSE entries[i]]

RECURSIVE TransformWith(_, _)
\* The second loop of transform: every truthy entry of type object, the Date
\* objects the first loop has just stored included, is transformed in turn.
RecurseEntries(fields, entries) ==
    [i \in DOMAIN entries |->
        IF Truthy(entries[i].v) /\ IsObjectType(entries[i].v)
        THEN Entry(entries[i].k, TransformWith(fields, entries[i].v))
        ELSE entries[i]]

TransformWith(fields, v) ==
    IF v.t = "null" \/ ~IsObjectType(v) THEN v
    ELSE IF v.t = "arr"
         THEN [v EXCEPT !.c = [i \in DOMAIN v.c |-> Entry("", TransformWith(fields, v.c[i].v))]]
         ELSE Obj(RecurseEntries(fields, ConvertDateFields(fields, Spread(v))))

\* const result = { ...obj }: result is a new object, so the assignments of
\* the two loops, which all go to result[...], leave obj's own properties as
\* they were; result = obj would make them obj's.
OwnPropertiesAfter(own, written) == own

\* What the argument of transform holds once transform has returned.  The
\* copy is shallow and map copies the array only, so the nested objects and
\* the items are the argument's own and hold what the nested calls left.
RECURSIVE ArgumentAfter(_, _)
ArgumentAfter(fields, v) ==
    IF v.t = "null" \/ ~IsObjectType(v) \/ v.t = "date" THEN v
    ELSE IF v.t = "arr"
         THEN [v EXCEPT !.c = [i \in DOMAIN v.c |-> Entry("", ArgumentAfter(fields, v.c[i].v))]]
         ELSE Obj(OwnPropertiesAfter(
                    [i \in DOMAIN v.c |->
                        IF Truthy(v.c[i].v) /\ IsObjectType(v.c[i].v)
                        THEN Entry(v.c[i].k, ArgumentAfter(fields, v.c[i].v))
                        ELSE v.c[i]],
                    TransformWith(fields, v).c))

DateTransform(v) == TransformWith(DateFields, v)
transformDates(v) == TransformWith(LegacyDateFields, v)
IdentityTransform(v) == v

(***************************************************************************)
(* Response bodies the model feeds to the transformers.                     *)
(***************************************************************************)
MaxArrayLen == 2
MaxApply == 2

SeqsUpTo(S, n) == UNION {[1..k -> S] : k \in 0..n}
Opt(key, choices) == {<<>>} \cup {<<Entry(key, v)>> : v \in choices}

DateLeaves == {Str(IsoA), Str(IsoAms), Str(NotADate), Str(""), Null, DateV(InstantA)}

PartRecords ==
    {Obj(<<Entry("id", Str("abc")), Entry("name", Str(IsoA))>> \o a \o b) :
        a \in Opt("createdAt", DateLeaves), b \in Opt("updatedAt", {Str(IsoB)})}

NestedBodies == {Obj(<<Entry("part", r), Entry("timestamp", Num(5))>>) : r \in PartRecords}

SearchBodies ==
    {Obj(<<Entry("parts", Arr(ps)), Entry("total", Num(Len(ps)))>>) :
        ps \in SeqsUpTo(PartRecords, MaxArrayLen)}

TransformInputs ==
    {Null, Num(5), Str(IsoA), DateV(InstantB)} \cup PartRecords \cup NestedBodies \cup SearchBodies

(***************************************************************************)
(* Errors (errors.ts) and the outcomes of HttpClient.request.               *)
(***************************************************************************)
\* new APIError(message, status, statusText)
APIError(status, statusText) == [type |-> "APIError", status |-> status, statusText |-> statusText]
\* Every other error carries no status (undefined, written 0).
OtherError(type) == [type |-> type, status |-> 0, statusText |-> ""]

\* What fetch does with one request: it resolves to a response (status, status
\* text, whether the content type includes application/json, whether the body
\* parses as JSON, the parsed body) or rejects (a TypeError whose message names
\* fetch, or the AbortError of an aborted signal).
FetchResponse(status, statusText, json, parses, body) ==
    [kind |-> "response", status |-> status, statusText |-> statusText,
     json |-> json, parses |-> parses, body |-> body]
FetchRejects(kind) ==
    [kind |-> kind, status |-> 0, statusText |-> "", json |-> FALSE, parses |-> FALSE, body |-> Null]

Resolved(status, statusText, data) ==
    [ok |-> TRUE, status |-> status, statusText |-> statusText, data |-> data, error |-> OtherError("")]
Rejected(error) ==
    [ok |-> FALSE, status |-> 0, statusText |-> "", data |-> Null, error |-> error]

\* Whether FetchHttpClient.request calls response.json(): the content type
\* alone decides, the status is not looked at.
ParsesBody(raw) == raw.kind = "response" /\ raw.json

\* FetchHttpClient.request after fetch has settled: the body is parsed only
\* when the content type is JSON (a parse error is rethrown as it is), any
\* other response carries {} as data; a fetch TypeError becomes a NetworkError
\* and every other rejection is rethrown.
HttpResult(raw) ==
    IF raw.kind = "response"
    THEN IF raw.json
         THEN IF raw.parses
              THEN Resolved(raw.status, raw.statusText, raw.body)
              ELSE Rejected(OtherError("SyntaxError"))
         ELSE Resolved(raw.status, raw.statusText, Obj(<<>>))
    ELSE IF raw.kind = "fetchTypeError"
         THEN Rejected(OtherError("NetworkError"))
         ELSE Rejected(OtherError("AbortError"))

(***************************************************************************)
(* Retry strategies (RetryStrategies.ts).  A strategy is a record           *)
(* [kind, maxAttempts, baseDelay, maxDelay]; the fixed-delay strategy keeps *)
(* its delay in baseDelay.                                                  *)
(***************************************************************************)
DefaultMaxAttempts == 3
DefaultBaseDelay == 1000
DefaultMaxDelay == 10000
SmallMaxDelay == 1500
MaxAttemptsBound == 3

NoRetryStrategy == [kind |-> "none", maxAttempts |-> 1, baseDelay |-> 0, maxDelay |-> 0]
FixedDelayRetryStrategy(maxAttempts, delay) ==
    [kind |-> "fixed", maxAttempts |-> maxAttempts, baseDelay |-> delay, maxDelay |-> delay]
ExponentialBackoffRetryStrategy(maxAttempts, baseDelay, maxDelay) ==
    [kind |-> "exp", maxAttempts |-> maxAttempts, baseDelay |-> baseDelay, maxDelay |-> maxDelay]

\* A strategy supplied through setRetryStrategy whose shouldRetry returns its
\* flag, which is true, whatever the attempt, and whose delay is 0
\* (MockRetryStrategy of the quick reference).
MockRetryStrategy(maxAttempts) ==
    [kind |-> "mock", maxAttempts |-> maxAttempts, baseDelay |-> 0, maxDelay |-> 0]

Min(a, b) == IF a <= b THEN a ELSE b

\* ExponentialBackoffRetryStrategy.shouldRetry without its status check.
ExpShouldRetryNoStatusCheck(rs, attempt, error) == attempt < rs.maxAttempts

\* ExponentialBackoffRetryStrategy.shouldRetry retrying server errors only.
ExpShouldRetryOnlyServerErrors(rs, attempt, error) ==
    attempt < rs.maxAttempts /\ error.type = "APIError" /\ error.status >= 500

ExpShouldRetry(rs, attempt, error) ==
    IF attempt >= rs.maxAttempts THEN FALSE
    ELSE IF error.type = "APIError" /\ error.status # 0 THEN error.status >= 500
    ELSE TRUE

\* FixedDelayRetryStrategy.shouldRetry with > 500 in place of >= 500.
FixedShouldRetryAbove500(rs, attempt, error) ==
    IF attempt >= rs.maxAttempts THEN FALSE
    ELSE IF error.type = "APIError" /\ error.status # 0 THEN error.status > 500
    ELSE TRUE

FixedShouldRetry(rs, attempt, error) ==
    IF attempt >= rs.maxAttempts THEN FALSE
    ELSE IF error.type = "APIError" /\ error.status # 0 THEN error.status >= 500
    ELSE TRUE

\* getRetryDelay with the exponent one too high.
ExpGetRetryDelayFromAttempt(rs, attempt) == Min(rs.baseDelay * 2^attempt, rs.maxDelay)

ExpGetRetryDelay(rs, attempt) == Min(rs.baseDelay * 2^(attempt - 1), rs.maxDelay)

shouldRetryAlsoWithNoRetry(rs, attempt, error) ==
    CASE rs.kind = "none" -> TRUE
      [] rs.kind = "mock" -> TRUE
      [] rs.kind = "fixed" -> FixedShouldRetry(rs, attempt, error)
      [] OTHER -> ExpShouldRetry(rs, attempt, error)

shouldRetry(rs, attempt, error) ==
    CASE rs.kind = "none" -> FALSE
      [] rs.kind = "mock" -> TRUE
      [] rs.kind = "fixed" -> FixedShouldRetry(rs, attempt, error)
      [] OTHER -> ExpShouldRetry(rs, attempt, error)

getRetryDelay(rs, attempt) ==
    CASE rs.kind = "none" -> 0
      [] rs.kind = "mock" -> 0
      [] rs.kind = "fixed" -> rs.baseDelay
      [] OTHER -> ExpGetRetryDelay(rs, attempt)

getMaxAttempts(rs) == IF rs.kind = "none" THEN 1 ELSE rs.maxAttempts

RetryStrategies ==
    {NoRetryStrategy}
    \cup {FixedDelayRetryStrategy(n, DefaultBaseDelay) : n \in 0..MaxAttemptsBound}
    \cup {ExponentialBackoffRetryStrategy(n, DefaultBaseDelay, m) :
            n \in 0..MaxAttemptsBound, m \in {DefaultMaxDelay, SmallMaxDelay}}

(***************************************************************************)
(* Data transformers as the client sees them: transform either returns a    *)
(* value or throws.  "throws" is a DataTransformer supplied through         *)
(* setDataTransformer whose transform raises an error.                      *)
(***************************************************************************)
Transformers == {"date", "identity", "throws"}

\* The strategies of RetryStrategies.ts and the ones a caller may write.
AnyRetryStrategies ==
    RetryStrategies \cup {MockRetryStrategy(n) : n \in 0..MaxAttemptsBound}

Returned(v) == [threw |-> FALSE, value |-> v]
Threw == [threw |-> TRUE, value |-> Null]

RunTransformer(kind, v) ==
    CASE kind = "date" -> Returned(DateTransform(v))
      [] kind = "identity" -> Returned(IdentityTransform(v))
      [] OTHER -> Threw

(***************************************************************************)
(* Authentication strategies: authenticate(headers) on a header map, here   *)
(* a set of <<name, value>> pairs.                                          *)
(***************************************************************************)
AuthStrategies == {"none", "bearer"}

SetHeader(headers, name, value) == {h \in headers : h[1] # name} \cup {<<name, value>>}

\* btoa of the credentials of BasicAuthStrategy: the base64 of a string whose
\* characters are all Latin-1; it throws InvalidCharacterError on any other
\* string. "basicWide" is a BasicAuthStrategy whose user name has a character
\* above U+00FF.
BasicCredentials(kind) == IF kind = "basic" THEN "user:pass" ELSE "U+7528:pass"
BtoaThrows(x) == x = "U+7528:pass"
Btoa(x) == IF x = "user:pass" THEN "dXNlcjpwYXNz" ELSE ""

\* `Basic ${credentials}`
BasicValue(credentials) == IF credentials = "dXNlcjpwYXNz" THEN "Basic dXNlcjpwYXNz" ELSE "Basic"

AuthenticateThrows(kind) == kind \in {"basic", "basicWide"} /\ BtoaThrows(BasicCredentials(kind))

\* The map authenticate returns when it does not throw.
authenticate(kind, headers) ==
    CASE kind = "bearer" -> SetHeader(headers, "Authorization", "Bearer token")
      [] kind = "apikey" -> SetHeader(headers, "X-API-Key", "key")
      [] kind \in {"basic", "basicWide"} ->
            SetHeader(headers, "Authorization", BasicValue(Btoa(BasicCredentials(kind))))
      [] OTHER -> headers

(***************************************************************************)
(* The operations of PartsAPIClient and the request each one builds.        *)
(***************************************************************************)
Operations == {"searchParts", "getPartById", "createPart", "updatePart", "deletePart"}

Method(op) ==
    CASE op = "createPart" -> "POST"
      [] op = "updatePart" -> "PUT"
      [] op = "deletePart" -> "DELETE"
      [] OTHER -> "GET"

Path(op) ==
    CASE op = "searchParts" -> "/parts/search"
      [] op = "createPart" -> "/parts"
      [] OTHER -> "/parts/abc"

HasBody(op) == op \in {"createPart", "updatePart"}

\* What the operation hands to its caller of the value executeRequest returns:
\* deletePart awaits it and returns nothing.
ValueOf(op, v) == IF op = "deletePart" THEN Undefined ELSE v

\* The HttpRequestOptions executeRequest builds for every attempt: url, method,
\* headers and body; it sets neither timeout nor signal.
RequestOptions(config, op) ==
    [url |-> <<"https://api", Path(op)>>, method |-> Method(op),
     headers |-> authenticate(config.auth, {}), body |-> HasBody(op),
     signal |-> FALSE]

\* The DTO arguments the callers pass. The DTO interfaces exist at compile time
\* only: a caller of the compiled client can pass a CreatePartDTO that lacks a
\* required field.
RequiredCreateFields == {"partNumber", "name", "price", "quantity", "category"}
Keys(o) == {o.c[i].k : i \in DOMAIN o.c}
MissingRequiredField(d) == d.t = "obj" /\ RequiredCreateFields \ Keys(d) # {}
CreatePartDto ==
    Obj(<<Entry("partNumber", Str("PN-1")), Entry("name", Str("Bolt")), Entry("price", Num(5)),
          Entry("quantity", Num(2)), Entry("category", Str("Hardware"))>>)
CreatePartDtoNoName ==
    Obj(<<Entry("partNumber", Str("PN-1")), Entry("price", Num(5)),
          Entry("quantity", Num(2)), Entry("category", Str("Hardware"))>>)
Dtos(op) ==
    CASE op = "createPart" -> {CreatePartDto, CreatePartDtoNoName}
      [] op \in {"searchParts", "updatePart"} -> {Obj(<<>>)}
      [] OTHER -> {Undefined}

\* The bodies and the answers of the transport in the client's runs.
PartAbc ==
    Obj(<<Entry("id", Str("abc")), Entry("createdAt", Str(IsoA)), Entry("updatedAt", Str(IsoB))>>)
SearchResult == Obj(<<Entry("parts", Arr(<<PartAbc>>)), Entry("total", Num(1))>>)
ErrorBody == Obj(<<Entry("message", Str("error"))>>)

ClientBodies == {PartAbc, SearchResult}

FetchOutcomes ==
    {FetchResponse(200, "OK", TRUE, TRUE, b) : b \in ClientBodies}
    \cup {FetchResponse(204, "No Content", FALSE, FALSE, Null),
          FetchResponse(204, "No Content", TRUE, FALSE, Null),
          FetchResponse(200, "OK", TRUE, FALSE, Null),
          FetchResponse(404, "Not Found", TRUE, TRUE, ErrorBody),
          FetchResponse(429, "Too Many Requests", TRUE, TRUE, ErrorBody),
          FetchResponse(500, "Internal Server Error", TRUE, TRUE, ErrorBody),
          FetchResponse(503, "Service Unavailable", FALSE, FALSE, Null),
          FetchRejects("fetchTypeError"),
          FetchRejects("abort")}

VARIABLES
    config,         \* the client's configuration: [retry, auth, transformer]
    operation,      \* the operation the caller invoked
    dto,            \* the DTO argument of the operation, as the caller built it
    pc,             \* "Building", "Awaiting", "Delaying", "Succeeded" or "Failed"
    attempt,        \* executeRequest's attempt counter
    options,        \* the HttpRequestOptions of the latest transport call
    calls,          \* transport calls made so far
    responses,      \* what each settled transport call gave: [status, statusText, data, thrown],
                    \* with the status fetch saw (http) and whether the body was parsed
    delays,         \* the delays waited between attempts, in order
    lastError,      \* executeRequest's lastError; the error thrown when pc = "Failed"
    returned,       \* the value returned to the caller when pc = "Succeeded"
    callerAborted   \* whether the caller has aborted its own AbortSignal

cvars == <<config, operation, dto, pc, attempt, options, calls, responses, delays,
           lastError, returned, callerAborted>>

VARIABLES
    tKind,      \* which transformer is applied: "date" or "legacy"
    tIn,        \* the body handed to the first application
    tOuts,      \* the results of the successive applications
    tArgs       \* what each application's argument holds once it has returned

tvars == <<tKind, tIn, tOuts, tArgs>>

VARIABLES
    hOptions,           \* the HttpRequestOptions of a direct FetchHttpClient.request: [timeout, signal]
    hState,             \* "Ready", "InFlight", "Resolved" or "Rejected"
    hClock,             \* time elapsed since the request was made
    hTimer,             \* the timeout's timer: "unset", "armed", "fired" or "cleared"
    hControllerAborted, \* whether request's own AbortController is aborted
    hExternalAborted,   \* whether the signal given in the options is aborted
    hResult             \* what request resolved to or threw

hvars == <<hOptions, hState, hClock, hTimer, hControllerAborted, hExternalAborted, hResult>>

VARIABLES
    rStrategy,  \* the retry strategy whose getRetryDelay is asked
    rDelays     \* what getRetryDelay(1), getRetryDelay(2), ... returned

rvars == <<rStrategy, rDelays>>

VARIABLES
    qDto,       \* the SearchPartsDTO given to searchParts: its entries in the order the caller set them
    qState,     \* "Ready" before searchParts builds its path, "Requested" after
    qPath       \* the path searchParts hands to executeRequest

qvars == <<qDto, qState, qPath>>

VARIABLES
    aHeaders,   \* the header map a caller hands to authenticate
    aArgument,  \* what that map object holds now
    aResults    \* what the successive calls of authenticate on it gave: [threw, map]

avars == <<aHeaders, aArgument, aResults>>

VARIABLES
    kConfig,    \* the configuration of the one client the invocations share
    kOps        \* the invocations in flight on it: for each its operation and the locals
                \* of its executeRequest call [op, pc, attempt, calls, inFlight, raws, delays, lastError, returned]

kvars == <<kConfig, kOps>>

VARIABLES
    now         \* the clock Date.now() and new Date() read, in milliseconds since the start

wvars == <<now>>

VARIABLES
    mockParts,  \* MockPartsAPIClient.mockParts
    mBorn,      \* for each stored part, the id and createdAt it entered the store with
    mLast       \* the latest operation on the mock client: [op, id, threw, value] and
                \* the number n of operations so far

mvars == <<mockParts, mBorn, mLast>>

VARIABLES
    dPart,      \* one domain Part: [id, props]
    dBornId,    \* the id Part.create gave it
    dEvents,    \* its domain events, in order
    dLast       \* the latest value-object construction: [made, raw, threw, value]

dvars == <<dPart, dBornId, dEvents, dLast>>

VARIABLES
    lConfig,    \* the legacy client's config: retryAttempts and retryDelay
    lOp,        \* the operation called on the legacy client
    lPc,        \* "Building", "Awaiting", "Delaying", "Succeeded" or "Failed"
    lAttempt,   \* the loop variable of request; 0 before the loop
    lCalls,     \* fetch calls made so far
    lDelays,    \* the delays awaited so far
    lError      \* the error the operation has thrown, if any

lvars == <<lConfig, lOp, lPc, lAttempt, lCalls, lDelays, lError>>

VARIABLES
    uRepository, \* the PartRepository given to the use cases: "memory" or "failing"
    uParts,      \* the repository's parts, in the order of the Map
    uOps,        \* the CreatePartUseCase.execute calls, one record each
    uIds,        \* how many ids PartId.generate has handed out
    uSearch      \* the last SearchPartsUseCase.execute call and what it returned

uvars == <<uRepository, uParts, uOps, uIds, uSearch>>

VARIABLES
    fCriteria,  \* usePartsSearch: the searchCriteria state
    fResults,   \* the results state; of = 0 stands for null
    fLoading,   \* the loading state
    fError,     \* the error state; of = 0 stands for null
    fCalls      \* the search() calls issued so far, in order

fvars == <<fCriteria, fResults, fLoading, fError, fCalls>>

vars == <<cvars, tvars, hvars, rvars, qvars, avars, kvars, wvars, mvars, dvars, lvars, uvars, fvars>>

\* The variables a part of the model leaves alone.
notClient == <<tvars, hvars, rvars, qvars, avars, kvars, wvars, mvars, dvars, lvars, uvars, fvars>>
notTransform == <<cvars, hvars, rvars, qvars, avars, kvars, wvars, mvars, dvars, lvars, uvars, fvars>>
notHttp == <<cvars, tvars, rvars, qvars, avars, kvars, wvars, mvars, dvars, lvars, uvars, fvars>>
notRetry == <<cvars, tvars, hvars, qvars, avars, kvars, wvars, mvars, dvars, lvars, uvars, fvars>>
notSearch == <<cvars, tvars, hvars, rvars, avars, kvars, wvars, mvars, dvars, lvars, uvars, fvars>>
notAuth == <<cvars, tvars, hvars, rvars, qvars, kvars, wvars, mvars, dvars, lvars, uvars, fvars>>
notConcurrent == <<cvars, tvars, hvars, rvars, qvars, avars, wvars, mvars, dvars, lvars, uvars, fvars>>
notClock == <<cvars, tvars, hvars, rvars, qvars, avars, kvars, mvars, dvars, lvars, uvars, fvars>>
notMock == <<cvars, tvars, hvars, rvars, qvars, avars, kvars, wvars, dvars, lvars, uvars, fvars>>
notDomain == <<cvars, tvars, hvars, rvars, qvars, avars, kvars, wvars, mvars, lvars, uvars, fvars>>
notLegacy == <<cvars, tvars, hvars, rvars, qvars, avars, kvars, wvars, mvars, dvars, uvars, fvars>>
notUseCase == <<cvars, tvars, hvars, rvars, qvars, avars, kvars, wvars, mvars, dvars, lvars, fvars>>
notHook == <<cvars, tvars, hvars, rvars, qvars, avars, kvars, wvars, mvars, dvars, lvars, uvars>>

\* The state of a part of the model that a specification leaves aside.
ClientIdle ==
    /\ config = [retry |-> NoRetryStrategy, auth |-> "none", transformer |-> "identity"]
    /\ operation = "none"
    /\ dto = Undefined
    /\ pc = "Idle"
    /\ attempt = 0
    /\ options = RequestOptions(config, operation)
    /\ calls = 0
    /\ responses = <<>>
    /\ delays = <<>>
    /\ lastError = OtherError("")
    /\ returned = Undefined
    /\ callerAborted = FALSE

TransformIdle ==
    /\ tKind = "date"
    /\ tIn = Null
    /\ tOuts = <<>>
    /\ tArgs = <<>>

HttpIdle ==
    /\ hOptions = [timeout |-> 0, signal |-> FALSE]
    /\ hState = "Idle"
    /\ hClock = 0
    /\ hTimer = "unset"
    /\ hControllerAborted = FALSE
    /\ hExternalAborted = FALSE
    /\ hResult = Rejected(OtherError(""))

RetryIdle ==
    /\ rStrategy = NoRetryStrategy
    /\ rDelays = <<>>

SearchIdle ==
    /\ qDto = <<>>
    /\ qState = "Idle"
    /\ qPath = [path |-> "", mark |-> "", query |-> <<>>]

AuthIdle ==
    /\ aHeaders = {}
    /\ aArgument = {}
    /\ aResults = <<>>

ConcurrentIdle ==
    /\ kConfig = [retry |-> NoRetryStrategy, auth |-> "none", transformer |-> "identity"]
    /\ kOps = <<>>

ClockIdle ==
    /\ now = 0

MockIdle ==
    /\ mockParts = <<>>
    /\ mBorn = <<>>
    /\ mLast = [op |-> "none", id |-> Undefined, threw |-> FALSE, value |-> Undefined, n |-> 0]

DomainIdle ==
    /\ dPart = [id |-> "", props |-> <<>>]
    /\ dBornId = ""
    /\ dEvents = <<>>
    /\ dLast = [made |-> "none", raw |-> <<>>, threw |-> "", value |-> <<>>]

LegacyIdle ==
    /\ lConfig = [retryAttempts |-> DefaultMaxAttempts, retryDelay |-> DefaultBaseDelay]
    /\ lOp = "getPartById"
    /\ lPc = "Building"
    /\ lAttempt = 0
    /\ lCalls = 0
    /\ lDelays = <<>>
    /\ lError = OtherError("")

UseCaseIdle ==
    /\ uRepository = "memory"
    /\ uParts = <<>>
    /\ uOps = <<>>
    /\ uIds = 0
    /\ uSearch = <<>>

HookIdle ==
    /\ fCriteria = "engine"
    /\ fResults = [of |-> 0, criteria |-> ""]
    /\ fLoading = FALSE
    /\ fError = [of |-> 0, criteria |-> ""]
    /\ fCalls = <<>>

\* Every part of the model but the named ones is left aside.
IdleExcept(parts) ==
    /\ IF "client" \in parts THEN TRUE ELSE ClientIdle
    /\ IF "transform" \in parts THEN TRUE ELSE TransformIdle
    /\ IF "http" \in parts THEN TRUE ELSE HttpIdle
    /\ IF "retry" \in parts THEN TRUE ELSE RetryIdle
    /\ IF "search" \in parts THEN TRUE ELSE SearchIdle
    /\ IF "auth" \in parts THEN TRUE ELSE AuthIdle
    /\ IF "concurrent" \in parts THEN TRUE ELSE ConcurrentIdle
    /\ IF "clock" \in parts THEN TRUE ELSE ClockIdle
    /\ IF "mock" \in parts THEN TRUE ELSE MockIdle
    /\ IF "domain" \in parts THEN TRUE ELSE DomainIdle
    /\ IF "legacy" \in parts THEN TRUE ELSE LegacyIdle
    /\ IF "usecase" \in parts THEN TRUE ELSE UseCaseIdle
    /\ IF "hook" \in parts THEN TRUE ELSE HookIdle

(***************************************************************************)
(* PartsAPIClient.executeRequest, one step per stretch of code between two  *)
(* awaits.                                                                  *)
(***************************************************************************)
ClientInit(strategies) ==
    /\ config \in [retry : strategies, auth : AuthStrategies, transformer : Transformers]
    /\ operation \in Operations
    /\ dto \in Dtos(operation)
    /\ pc = "Building"
    /\ attempt = 0
    /\ options = RequestOptions(config, operation)
    /\ calls = 0
    /\ responses = <<>>
    /\ delays = <<>>
    /\ lastError = OtherError("")
    /\ returned = Undefined
    /\ callerAborted = FALSE
    /\ IdleExcept({"client"})

Init == ClientInit(RetryStrategies)

\* The catch block of attempt a: lastError is set; the error is rethrown unless
\* the strategy says to retry, and then the delay of this attempt is awaited.
CatchAt(a, error) ==
    /\ lastError' = error
    /\ IF shouldRetry(config.retry, a, error)
       THEN /\ pc' = "Delaying"
            /\ delays' = Append(delays, getRetryDelay(config.retry, a))
       ELSE /\ pc' = "Failed"
            /\ delays' = delays
    /\ returned' = returned

Catch(error) == CatchAt(attempt, error)

\* The try block of attempt a up to its await: the options are built, which
\* calls authenticate({}), and httpClient.request is called; an error thrown
\* by authenticate lands in the catch block before any transport call.
StartAttempt(a) ==
    IF AuthenticateThrows(config.auth)
    THEN /\ CatchAt(a, OtherError("InvalidCharacterError"))
         /\ UNCHANGED <<options, calls>>
    ELSE /\ options' = RequestOptions(config, operation)
         /\ calls' = calls + 1
         /\ pc' = "Awaiting"
         /\ UNCHANGED <<lastError, delays, returned>>

\* The operation builds its path and enters executeRequest: attempt = 1 and
\* the first attempt starts.
ExecuteRequest ==
    /\ pc = "Building"
    /\ attempt' = 1
    /\ StartAttempt(1)
    /\ UNCHANGED <<dto, config, operation, responses, callerAborted>>
    /\ UNCHANGED notClient

\* The try block after the transport call has settled.
Settle(result) ==
    IF result.ok
    THEN IF result.status >= 400
         THEN Catch(APIError(result.status, result.statusText))
         ELSE IF RunTransformer(config.transformer, result.data).threw
              THEN Catch(OtherError("Error"))
              ELSE /\ returned' = ValueOf(operation, RunTransformer(config.transformer, result.data).value)
                   /\ pc' = "Succeeded"
                   /\ UNCHANGED <<lastError, delays>>
    ELSE Catch(result.error)

\* The awaited httpClient.request settles and executeRequest runs on to its
\* return, its throw or the await of the delay.
TransportSettles ==
    /\ pc = "Awaiting"
    /\ \E raw \in FetchOutcomes :
        /\ responses' = Append(responses,
              [status |-> HttpResult(raw).status, statusText |-> HttpResult(raw).statusText,
               data |-> HttpResult(raw).data, thrown |-> HttpResult(raw).error.type,
               http |-> raw.status, parsed |-> ParsesBody(raw)])
        /\ Settle(HttpResult(raw))
    /\ UNCHANGED <<dto, config, operation, attempt, options, calls, callerAborted>>
    /\ UNCHANGED notClient

\* The delay's timer fires: attempt++, then the loop condition; the next
\* attempt starts, or lastError is thrown.
DelayElapses ==
    /\ pc = "Delaying"
    /\ attempt' = attempt + 1
    /\ IF attempt + 1 <= getMaxAttempts(config.retry)
       THEN StartAttempt(attempt + 1)
       ELSE /\ pc' = "Failed"
            /\ UNCHANGED <<options, calls, lastError, delays, returned>>
    /\ UNCHANGED <<dto, config, operation, responses, callerAborted>>
    /\ UNCHANGED notClient

\* The caller aborts the AbortSignal it holds while the operation is pending.
\* No operation of the client takes a signal, the options carry none and
\* delay() is a bare setTimeout, so nothing in executeRequest observes it.
CallerAborts ==
    /\ pc \in {"Awaiting", "Delaying"}
    /\ ~callerAborted
    /\ callerAborted' = TRUE
    /\ UNCHANGED <<dto, config, operation, pc, attempt, options, calls, responses, delays,
                   lastError, returned>>
    /\ UNCHANGED notClient

Next ==
    \/ ExecuteRequest
    \/ TransportSettles
    \/ DelayElapses

Spec == Init /\ [][Next]_vars

\* The same operation with a caller that may abort its signal meanwhile.
NextCancel ==
    \/ ExecuteRequest
    \/ TransportSettles
    \/ DelayElapses
    \/ CallerAborts

SpecCancel == Init /\ [][NextCancel]_vars

\* The same operation of a client built with any strategy, a caller's own
\* included.
InitAnyStrategy == ClientInit(AnyRetryStrategies)

SpecAnyStrategy == InitAnyStrategy /\ [][Next]_vars

(***************************************************************************)
(* Properties of executeRequest with the retry strategies.                  *)
(***************************************************************************)
Terminal == pc \in {"Succeeded", "Failed"}
Retrying == config.retry.kind \in {"fixed", "exp"}
Statuses == [i \in DOMAIN responses |-> responses[i].status]
Last(seq) == seq[Len(seq)]
ClientErrorStatuses == {400, 404, 429, 499}
ServerErrorStatuses == {500, 502, 503, 599}
AttemptNumbers == 1..(MaxAttemptsBound + 2)
TransportFailures == {"NetworkError", "AbortError"}

\* C1: with a fixed-delay or exponential-backoff strategy of any maximum, for
\* every operation, a first transport response with a status in 400..499 (429
\* included) means exactly one transport call, no delay, and an APIError with
\* that status and status text thrown to the caller; and shouldRetry is false
\* for such an error at every attempt number.
C1_ClientErrorNotRetried ==
    Retrying =>
        /\ (responses # <<>> /\ responses[1].status \in 400..499) =>
                /\ pc = "Failed"
                /\ calls = 1
                /\ Len(responses) = 1
                /\ delays = <<>>
                /\ lastError = APIError(responses[1].status, responses[1].statusText)
        /\ \A a \in AttemptNumbers, st \in ClientErrorStatuses :
                ~shouldRetry(config.retry, a, APIError(st, "text"))

C1_Witness ==
    /\ pc = "Failed"
    /\ operation = "deletePart"
    /\ config.retry = ExponentialBackoffRetryStrategy(DefaultMaxAttempts, DefaultBaseDelay, DefaultMaxDelay)
    /\ Statuses = <<429>>
    /\ calls = 1

\* The strategy and the transport answers of the scenario of C2.
C2_Scenario ==
    /\ config.retry = ExponentialBackoffRetryStrategy(DefaultMaxAttempts, DefaultBaseDelay, DefaultMaxDelay)
    /\ Len(responses) >= 3
    /\ SubSeq(Statuses, 1, 3) = <<503, 503, 503>>

\* C2 as claimed: exponential-backoff(3, 1000, 10000) facing three 503
\* responses and then a 200 makes 4 transport calls, waits 1000 and then 2000
\* between attempts and returns the transformed body of the 200.
C2_FourthCallSucceeds ==
    (C2_Scenario /\ Terminal) =>
        /\ calls = 4
        /\ delays = <<1000, 2000>>
        /\ pc = "Succeeded"

\* C2 as amended: exponential-backoff(3, 1000, 10000) facing three 503
\* responses makes 3 transport calls, waits 1000 and then 2000 between them
\* and throws the APIError of the third 503; no fourth call is made.
C2_ThirdFailureIsFinal ==
    C2_Scenario =>
        /\ pc = "Failed"
        /\ calls = 3
        /\ Len(responses) = 3
        /\ delays = <<1000, 2000>>
        /\ lastError = APIError(503, responses[3].statusText)

C2_Witness == C2_Scenario /\ pc = "Failed" /\ config.transformer = "date"

\* C3: with a fixed-delay or exponential-backoff strategy of maximum N >= 1,
\* shouldRetry is true for every error of status >= 500 at every attempt
\* below N, and an operation whose transport answers only 5xx makes exactly N
\* transport calls and then throws the APIError of the last response.
C3_ServerErrorsRetriedToBudget ==
    (Retrying /\ config.retry.maxAttempts >= 1) =>
        /\ \A a \in AttemptNumbers, st \in ServerErrorStatuses :
                a < config.retry.maxAttempts => shouldRetry(config.retry, a, APIError(st, "text"))
        /\ (Terminal /\ \A i \in DOMAIN responses : responses[i].status >= 500) =>
                /\ pc = "Failed"
                /\ calls = config.retry.maxAttempts
                /\ Len(responses) = config.retry.maxAttempts
                /\ lastError = APIError(Last(responses).status, Last(responses).statusText)

C3_Witness ==
    /\ pc = "Failed"
    /\ config.retry = FixedDelayRetryStrategy(DefaultMaxAttempts, DefaultBaseDelay)
    /\ Statuses = <<500, 503, 500>>
    /\ calls = 3

\* The latest transport call threw a transport failure at an attempt below
\* the strategy's maximum.
C4_FailedBelowMax ==
    /\ Retrying
    /\ responses # <<>>
    /\ Last(responses).thrown \in TransportFailures
    /\ Len(responses) < config.retry.maxAttempts

C4_State ==
    /\ Retrying =>
            \A a \in AttemptNumbers, e \in TransportFailures :
                a < config.retry.maxAttempts => shouldRetry(config.retry, a, OtherError(e))
    /\ C4_FailedBelowMax =>
            /\ Len(delays) = Len(responses)
            /\ Last(delays) = getRetryDelay(config.retry, Len(responses))
            /\ \/ pc = "Delaying" /\ calls = Len(responses)
               \/ pc = "Awaiting" /\ calls = Len(responses) + 1

C4_Step ==
    (C4_FailedBelowMax /\ pc = "Delaying" /\ pc' # "Delaying") =>
        (pc' = "Awaiting" /\ calls' = calls + 1)

\* C4: with a fixed-delay or exponential-backoff strategy, shouldRetry is
\* true for every transport failure (NetworkError, AbortError) at every
\* attempt below the maximum, executeRequest then waits the computed delay
\* and, when the delay is over, issues another transport call.
C4_TransportFailureRetried == [] C4_State /\ [][C4_Step]_vars

C4_Witness ==
    /\ config.retry.kind = "exp"
    /\ pc = "Awaiting"
    /\ calls = 2
    /\ Len(responses) = 1
    /\ responses[1].thrown = "AbortError"

\* C5: once the transport has returned a response with status < 400, no
\* further transport call is made for the operation, whatever the retry
\* strategy and the data transformer, a transformer that throws included.
C5_SuccessNeverRetried ==
    [][(\E i \in DOMAIN responses : responses[i].status \in 1..399) => calls' = calls]_vars

\* C6: the caller can cancel the operation through one cancellation signal;
\* if the caller cancels while executeRequest is waiting in an inter-attempt
\* delay, no subsequent transport call is started (checked with a caller
\* that may abort its signal, SpecCancel).
C6_CancelDuringDelayStopsAttempts ==
    [][(callerAborted /\ pc = "Delaying") => calls' = calls]_vars

(***************************************************************************)
(* What the claims about date fields say of a body and its transform.       *)
(* FieldsHold(rule, in, out): out has the shape of in, and every designated  *)
(* date field of in that the rule is about, at any depth, has in out the    *)
(* value the rule expects:                                                  *)
(*   "iso"       a string that parses   -> the date value of its instant    *)
(*   "unparsed"  a string that does not -> the same string                  *)
(*   "date"      a date value           -> the same date value              *)
(***************************************************************************)
RuleCovers(rule, e) ==
    /\ e.k \in LegacyDateFields
    /\ CASE rule = "iso" -> e.v.t = "str" /\ ParsesAsDate(e.v.s)
         [] rule = "unparsed" -> e.v.t = "str" /\ ~ParsesAsDate(e.v.s)
         [] OTHER -> e.v.t = "date"

RuleExpects(rule, e) == IF rule = "iso" THEN DateV(DateParse(e.v.s)) ELSE e.v

RECURSIVE FieldsHold(_, _, _)
FieldsHold(rule, in, out) ==
    IF in.t \in {"obj", "arr"}
    THEN /\ out.t = in.t
         /\ Len(out.c) = Len(in.c)
         /\ \A i \in DOMAIN in.c :
                /\ out.c[i].k = in.c[i].k
                /\ IF RuleCovers(rule, in.c[i])
                   THEN out.c[i].v = RuleExpects(rule, in.c[i])
                   ELSE FieldsHold(rule, in.c[i].v, out.c[i].v)
    ELSE TRUE

\* C8: when the transport returns a success body whose createdAt / updatedAt
\* fields hold ISO-8601 strings, at the top level or nested in objects and
\* arrays, the value the operation returns has each of those fields as the
\* date value of the instant the string denotes.
C8_DateFieldsBecomeDates ==
    (pc = "Succeeded" /\ config.transformer = "date" /\ operation # "deletePart") =>
        FieldsHold("iso", Last(responses).data, returned)


(***************************************************************************)
(* FetchHttpClient.request called on its own, with and without a signal in  *)
(* its options.  Time is counted in ticks; a timer that is due fires before *)
(* more time passes.                                                        *)
(***************************************************************************)
MaxTimeout == 2
MaxClock == 3

\* const requestSignal = signal || controller.signal: the signal fetch is
\* given, and whether it is aborted.
RequestSignal(opts) == IF opts.signal THEN "external" ELSE "controller"
RequestSignalAborted ==
    IF RequestSignal(hOptions) = "external" THEN hExternalAborted ELSE hControllerAborted

HInit ==
    /\ hOptions \in [timeout : 1..MaxTimeout, signal : BOOLEAN]
    /\ hState = "Ready"
    /\ hClock = 0
    /\ hTimer = "unset"
    /\ hControllerAborted = FALSE
    /\ hExternalAborted = FALSE
    /\ hResult = Rejected(OtherError(""))
    /\ IdleExcept({"http"})

\* request() up to its await: the controller is created, the timer is set
\* and fetch is called with requestSignal.
HttpRequest ==
    /\ hState = "Ready"
    /\ hState' = "InFlight"
    /\ hTimer' = "armed"
    /\ UNCHANGED <<hOptions, hClock, hControllerAborted, hExternalAborted, hResult>>
    /\ UNCHANGED notHttp

\* Time passes while the fetch is in flight, unless the timer is due.
Tick ==
    /\ hState = "InFlight"
    /\ hClock < MaxClock
    /\ ~(hTimer = "armed" /\ hClock >= hOptions.timeout)
    /\ hClock' = hClock + 1
    /\ UNCHANGED <<hOptions, hState, hTimer, hControllerAborted, hExternalAborted, hResult>>
    /\ UNCHANGED notHttp

\* The timer's callback: controller.abort().
TimerFires ==
    /\ hTimer = "armed"
    /\ hClock >= hOptions.timeout
    /\ hTimer' = "fired"
    /\ hControllerAborted' = TRUE
    /\ UNCHANGED <<hOptions, hState, hClock, hExternalAborted, hResult>>
    /\ UNCHANGED notHttp

\* The holder of the signal given in the options aborts it.
ExternalAbort ==
    /\ hOptions.signal
    /\ hState \in {"Ready", "InFlight"}
    /\ ~hExternalAborted
    /\ hExternalAborted' = TRUE
    /\ UNCHANGED <<hOptions, hState, hClock, hTimer, hControllerAborted, hResult>>
    /\ UNCHANGED notHttp

\* clearTimeout(timeoutId)
ClearTimeout(timer) == IF timer = "armed" THEN "cleared" ELSE timer

\* fetch settles by itself (a response, or a TypeError) before its signal is
\* aborted; request clears the timer and returns or throws.
FetchSettles ==
    /\ hState = "InFlight"
    /\ ~RequestSignalAborted
    /\ \E raw \in FetchOutcomes :
        /\ raw.kind # "abort"
        /\ hResult' = HttpResult(raw)
        /\ hState' = IF HttpResult(raw).ok THEN "Resolved" ELSE "Rejected"
    /\ hTimer' = ClearTimeout(hTimer)
    /\ UNCHANGED <<hOptions, hClock, hControllerAborted, hExternalAborted>>
    /\ UNCHANGED notHttp

\* The signal fetch was given is aborted: fetch rejects with an AbortError,
\* which request rethrows after clearing the timer.
FetchAborted ==
    /\ hState = "InFlight"
    /\ RequestSignalAborted
    /\ hResult' = HttpResult(FetchRejects("abort"))
    /\ hState' = "Rejected"
    /\ hTimer' = ClearTimeout(hTimer)
    /\ UNCHANGED <<hOptions, hClock, hControllerAborted, hExternalAborted>>
    /\ UNCHANGED notHttp

HNext ==
    \/ HttpRequest
    \/ Tick
    \/ TimerFires
    \/ ExternalAbort
    \/ FetchSettles
    \/ FetchAborted

SpecHttp == HInit /\ [][HNext]_vars

\* C7: FetchHttpClient.request enforces the timeout by aborting the in-flight
\* call, for every request, one that supplies its own signal included: once
\* the timeout has elapsed with the fetch still in flight, the signal the
\* fetch listens to is aborted (so that the fetch rejects and the request
\* fails with a transport failure).
C7_TimeoutAbortsFetch ==
    (hState = "InFlight" /\ hTimer = "fired") => RequestSignalAborted

(***************************************************************************)
(* The transformers applied on their own to a range of bodies.              *)
(***************************************************************************)
ArgumentAfterKind(kind, v) ==
    IF kind = "legacy" THEN ArgumentAfter(LegacyDateFields, v) ELSE ArgumentAfter(DateFields, v)

ApplyKind(kind, v) == IF kind = "legacy" THEN transformDates(v) ELSE DateTransform(v)

TInit ==
    /\ tKind \in {"date", "legacy"}
    /\ tIn \in TransformInputs
    /\ tOuts = <<>>
    /\ tArgs = <<>>
    /\ IdleExcept({"transform"})

\* One more application of the transformer to the latest value.
ApplyTransform ==
    /\ Len(tOuts) < MaxApply
    /\ tOuts' = Append(tOuts, ApplyKind(tKind, IF tOuts = <<>> THEN tIn ELSE tOuts[Len(tOuts)]))
    /\ tArgs' = Append(tArgs, ArgumentAfterKind(tKind, IF tOuts = <<>> THEN tIn ELSE tOuts[Len(tOuts)]))
    /\ UNCHANGED <<tKind, tIn>>
    /\ UNCHANGED notTransform

TNext == ApplyTransform

SpecTransform == TInit /\ [][TNext]_vars

\* The value the i-th application was given.
TransformInput(i) == IF i = 1 THEN tIn ELSE tOuts[i - 1]

\* C9: the date transformer is idempotent, transform(transform(x)) equals
\* transform(x) for every body x, and a date field that already holds a date
\* value still holds that same date value after a further application.
C9_TransformIdempotent ==
    /\ Len(tOuts) >= 2 => tOuts[2] = tOuts[1]
    /\ \A i \in DOMAIN tOuts : FieldsHold("date", TransformInput(i), tOuts[i])

\* C10: a designated date field holding a string that does not parse as a
\* date is left as its original string by the date transformer (which
\* raises no error).
C10_UnparseableFieldKept ==
    \A i \in DOMAIN tOuts : FieldsHold("unparsed", TransformInput(i), tOuts[i])

(***************************************************************************)
(* Decode failures: the body of a response that declares JSON does not      *)
(* parse, response.json() throws inside FetchHttpClient.request.            *)
(***************************************************************************)
DecodeFailed(i) == responses[i].thrown = "SyntaxError"

\* C11: a decode failure is non-retryable: for every retry strategy and
\* remaining budget, the transport call that hit a decode failure is the last
\* one of the operation, and the operation has failed with that error.
C11_DecodeFailureNotRetried ==
    \A i \in DOMAIN responses :
        DecodeFailed(i) =>
            /\ pc = "Failed"
            /\ calls = i
            /\ lastError = OtherError("SyntaxError")

(***************************************************************************)
(* Malformed input.                                                         *)
(***************************************************************************)
\* C12: createPart called with a CreatePartDTO that lacks a required field
\* fails fast with a ValidationError: no transport call is made and no retry
\* decision is taken (no delay is waited) for that call.
C12_MalformedInputFailsFast ==
    (operation = "createPart" /\ MissingRequiredField(dto)) =>
        /\ calls = 0
        /\ delays = <<>>
        /\ pc \in {"Building", "Failed"}
        /\ pc = "Failed" => lastError.type = "ValidationError"

(***************************************************************************)
(* getRetryDelay asked for attempt 1, 2, 3, ... of one strategy. The         *)
(* constructors take any number as base delay, maximum delay and delay.     *)
(***************************************************************************)
MaxDelayAttempt == 5
LongMaxDelay == 5000
BaseDelays == {0 - DefaultBaseDelay, 0, 1, 250, DefaultBaseDelay}
MaxDelays == {0, SmallMaxDelay, LongMaxDelay, DefaultMaxDelay}

DelayStrategies ==
    {ExponentialBackoffRetryStrategy(DefaultMaxAttempts, b, m) : b \in BaseDelays, m \in MaxDelays}
    \cup {FixedDelayRetryStrategy(DefaultMaxAttempts, d) : d \in BaseDelays}
    \cup {NoRetryStrategy}

RInit ==
    /\ rStrategy \in DelayStrategies
    /\ rDelays = <<>>
    /\ IdleExcept({"retry"})

\* strategy.getRetryDelay(k) for the next attempt number k.
AskRetryDelay ==
    /\ Len(rDelays) < MaxDelayAttempt
    /\ rDelays' = Append(rDelays, getRetryDelay(rStrategy, Len(rDelays) + 1))
    /\ UNCHANGED rStrategy
    /\ UNCHANGED notRetry

RNext == AskRetryDelay

SpecDelay == RInit /\ [][RNext]_vars

\* What C13 says of the delays of a strategy.
DelaysAsSpecified ==
    /\ rStrategy.kind = "exp" =>
        \A k \in DOMAIN rDelays :
            /\ rDelays[k] = Min(rStrategy.maxDelay, rStrategy.baseDelay * 2^(k - 1))
            /\ rDelays[k] <= rStrategy.maxDelay
            /\ k > 1 => rDelays[k - 1] <= rDelays[k]
    /\ (rStrategy = ExponentialBackoffRetryStrategy(DefaultMaxAttempts, DefaultBaseDelay, DefaultMaxDelay)
            /\ Len(rDelays) >= 3) =>
        SubSeq(rDelays, 1, 3) = <<1000, 2000, 4000>>
    /\ rStrategy.kind = "fixed" =>
        \A k \in DOMAIN rDelays : rDelays[k] = rStrategy.baseDelay

Bool(b) == [t |-> "bool", s |-> "", n |-> IF b THEN 1 ELSE 0, c |-> <<>>]

\* The fields of SearchPartsDTO in the order the interface lists them.
SearchFieldOrder ==
    <<"name", "partNumber", "category", "status", "minPrice", "maxPrice", "inStock", "page", "limit">>

\* String(value) of a string, a boolean or a small non-negative integer.
Digits == <<"0", "1", "2", "3", "4", "5", "6", "7", "8", "9">>
String(v) ==
    CASE v.t = "str" -> v.s
      [] v.t = "bool" -> IF v.n = 1 THEN "true" ELSE "false"
      [] OTHER -> Digits[v.n + 1]

\* URLSearchParams.toString() writes each value form-urlencoded: a space
\* becomes +, a reserved character its percent escape; letters and digits
\* stay.
FormUrlEncode(x) ==
    CASE x = "a b" -> "a+b"
      [] x = "a&b=c" -> "a%26b%3Dc"
      [] OTHER -> x

\* Object.entries(dto).forEach: the entries in the object's own order, those
\* with an undefined or null value skipped, appended as key and String(value).
RECURSIVE AppendEntries(_)
AppendEntries(entries) ==
    IF entries = <<>>
    THEN <<>>
    ELSE LET e == Head(entries)
         IN  (IF e.v.t \in {"undefined", "null"}
              THEN <<>>
              ELSE <<[k |-> e.k, v |-> FormUrlEncode(String(e.v))]>>)
             \o AppendEntries(Tail(entries))

\* The path of the request: /parts/search?k=v&... or /parts/search alone when
\* queryParams.toString() is empty.
SearchPath(d) ==
    [path |-> "/parts/search",
     mark |-> IF AppendEntries(d) # <<>> THEN "?" ELSE "",
     query |-> AppendEntries(d)]

MaxCriteria == 3
CriteriaValues(field) ==
    CASE field = "name" -> {Str("engine"), Str("a b"), Null}
      [] field = "category" -> {Str("a&b=c")}
      [] field = "inStock" -> {Bool(TRUE), Undefined}
      [] OTHER -> {Num(2)}
CriteriaEntries ==
    {Entry(f, v) : f \in {"name", "category", "inStock", "page"}, v \in CriteriaValues("name") \cup
        CriteriaValues("category") \cup CriteriaValues("inStock") \cup CriteriaValues("page")}
SearchDtos ==
    {d \in SeqsUpTo(CriteriaEntries, MaxCriteria) :
        /\ \A i \in DOMAIN d : d[i].v \in CriteriaValues(d[i].k)
        /\ \A i, j \in DOMAIN d : i # j => d[i].k # d[j].k}

QInit ==
    /\ qDto \in SearchDtos
    /\ qState = "Ready"
    /\ qPath = [path |-> "", mark |-> "", query |-> <<>>]
    /\ IdleExcept({"search"})

\* searchParts(dto) up to its call of executeRequest('GET', path).
SearchParts ==
    /\ qState = "Ready"
    /\ qPath' = SearchPath(qDto)
    /\ qState' = "Requested"
    /\ UNCHANGED qDto
    /\ UNCHANGED notSearch

QNext == SearchParts

SpecSearch == QInit /\ [][QNext]_vars

\* The value the caller set for a field, undefined when it set none.
Criterion(d, field) ==
    IF \E i \in DOMAIN d : d[i].k = field
    THEN (CHOOSE e \in {d[i] : i \in DOMAIN d} : e.k = field).v
    ELSE Undefined
Qualifies(d, field) == Criterion(d, field).t \notin {"undefined", "null"}

\* The qualifying fields in the enumerated order, each as key and encoded value.
RECURSIVE InFieldOrder(_, _)
InFieldOrder(d, fields) ==
    IF fields = <<>>
    THEN <<>>
    ELSE (IF Qualifies(d, Head(fields))
          THEN <<[k |-> Head(fields), v |-> FormUrlEncode(String(Criterion(d, Head(fields))))]>>
          ELSE <<>>)
         \o InFieldOrder(d, Tail(fields))

\* C14: the path searchParts requests carries exactly the criteria whose value
\* is neither null nor undefined, each once as key=urlencoded(value), in the
\* order name, partNumber, category, status, minPrice, maxPrice, inStock,
\* page, limit whatever the order the caller set them in; when no field
\* qualifies the path is /parts/search with no '?'.
C14_QueryInFieldOrder ==
    qState = "Requested" =>
        /\ qPath.path = "/parts/search"
        /\ qPath.query = InFieldOrder(qDto, SearchFieldOrder)
        /\ qPath.mark = (IF \E f \in DOMAIN SearchFieldOrder : Qualifies(qDto, SearchFieldOrder[f])
                         THEN "?" ELSE "")

(***************************************************************************)
(* deletePart and the 204 response.                                         *)
(***************************************************************************)
\* C15: deletePart whose transport response has status 204 and an empty body
\* succeeds whatever headers the response carries: no error is thrown, exactly
\* one transport call is made and the empty body is not parsed as JSON (here
\* with the transformers the package provides).
C15_DeleteNoContentSucceeds ==
    (/\ operation = "deletePart"
     /\ config.transformer \in {"date", "identity"}
     /\ responses # <<>>
     /\ responses[1].http = 204) =>
        /\ pc = "Succeeded"
        /\ calls = 1
        /\ ~responses[1].parsed
        /\ returned = Undefined

(***************************************************************************)
(* The authentication strategies: authenticate applied again and again to   *)
(* one header map, beside an operation of a client that uses the strategy.  *)
(***************************************************************************)
MaxAuthCalls == 2
AllAuthStrategies == {"none", "bearer", "apikey", "basic", "basicWide"}
HeaderMaps ==
    {{}, {<<"Accept", "text/plain">>}, {<<"Authorization", "old">>},
     {<<"Accept", "text/plain">>, <<"X-API-Key", "old">>}}

AInit ==
    /\ config \in [retry : {NoRetryStrategy, FixedDelayRetryStrategy(2, DefaultBaseDelay)},
                   auth : AllAuthStrategies, transformer : {"identity"}]
    /\ operation \in Operations
    /\ dto \in Dtos(operation)
    /\ pc = "Building"
    /\ attempt = 0
    /\ options = RequestOptions(config, operation)
    /\ calls = 0
    /\ responses = <<>>
    /\ delays = <<>>
    /\ lastError = OtherError("")
    /\ returned = Undefined
    /\ callerAborted = FALSE
    /\ aHeaders \in HeaderMaps
    /\ aArgument = aHeaders
    /\ aResults = <<>>
    /\ IdleExcept({"client", "auth"})

\* authStrategy.authenticate(headers): every strategy builds a new object from
\* a spread of its argument (NoAuthStrategy returns the argument itself); none
\* assigns to the argument.
Authenticate ==
    /\ Len(aResults) < MaxAuthCalls
    /\ aResults' = Append(aResults,
            IF AuthenticateThrows(config.auth)
            THEN [threw |-> TRUE, map |-> {}]
            ELSE [threw |-> FALSE, map |-> authenticate(config.auth, aArgument)])
    /\ aArgument' = aArgument
    /\ UNCHANGED aHeaders
    /\ UNCHANGED notAuth

ANext ==
    \/ ExecuteRequest
    \/ TransportSettles
    \/ DelayElapses
    \/ Authenticate

SpecAuth == AInit /\ [][ANext]_vars

\* The name of the header that carries the credential of a strategy.
CredentialNames(kind) ==
    CASE kind = "none" -> {}
      [] kind = "apikey" -> {"X-API-Key"}
      [] OTHER -> {"Authorization"}
Names(headers) == {h[1] : h \in headers}

\* C16: every authentication strategy is a pure function of the header map:
\* authenticate leaves the map it is given as it was, returns a map with every
\* input header the credential header does not override and with the
\* credential header, and gives the same result on every call; and every
\* transport call of an operation, retries included, carries the credential
\* header of the configured strategy.
C16_AuthenticateIsPure ==
    /\ aArgument = aHeaders
    /\ \A i \in DOMAIN aResults :
        /\ ~aResults[i].threw
        /\ {h \in aHeaders : h[1] \notin CredentialNames(config.auth)} \subseteq aResults[i].map
        /\ CredentialNames(config.auth) \subseteq Names(aResults[i].map)
        /\ aResults[i] = aResults[1]
    /\ pc = "Awaiting" => CredentialNames(config.auth) \subseteq Names(options.headers)
    /\ attempt >= 1 => calls >= 1

(***************************************************************************)
(* Several invocations in flight on one PartsAPIClient. The interpreter     *)
(* runs one invocation at a time and switches at the awaits; executeRequest *)
(* keeps url, lastError and attempt in locals and reads this.config only.   *)
(***************************************************************************)
NumInvocations == 2
Invocations == 1..NumInvocations

\* The locals of an executeRequest call that has not started.
Invoked(op) ==
    [op |-> op, pc |-> "Building", attempt |-> 0, calls |-> 0, inFlight |-> 0, raws |-> <<>>,
     delays |-> <<>>, lastError |-> OtherError(""), returned |-> Undefined]

\* The catch block of an invocation.
Caught(cfg, o, error) ==
    IF shouldRetry(cfg.retry, o.attempt, error)
    THEN [o EXCEPT !.lastError = error, !.pc = "Delaying",
                   !.delays = Append(@, getRetryDelay(cfg.retry, o.attempt))]
    ELSE [o EXCEPT !.lastError = error, !.pc = "Failed"]

\* The try block of an invocation up to the await of httpClient.request.
Attempted(cfg, o) ==
    IF AuthenticateThrows(cfg.auth)
    THEN Caught(cfg, o, OtherError("InvalidCharacterError"))
    ELSE [o EXCEPT !.pc = "Awaiting", !.calls = @ + 1, !.inFlight = @ + 1]

\* executeRequest from its entry to its first await.
Entered(cfg, o) == Attempted(cfg, [o EXCEPT !.attempt = 1])

\* The rest of the try block once the transport call has settled with raw.
Settled(cfg, o, raw) ==
    LET res == HttpResult(raw)
        got == [o EXCEPT !.inFlight = @ - 1, !.raws = Append(@, raw)]
    IN  IF res.ok
        THEN IF res.status >= 400
             THEN Caught(cfg, got, APIError(res.status, res.statusText))
             ELSE IF RunTransformer(cfg.transformer, res.data).threw
                  THEN Caught(cfg, got, OtherError("Error"))
                  ELSE [got EXCEPT !.pc = "Succeeded",
                                   !.returned = ValueOf(o.op, RunTransformer(cfg.transformer, res.data).value)]
        ELSE Caught(cfg, got, res.error)

\* attempt++: the counter is a local of the invocation.
NextAttemptOfClient(ops, p) ==
    1 + (CHOOSE m \in {ops[q].attempt : q \in DOMAIN ops} : \A q \in DOMAIN ops : ops[q].attempt <= m)
NextAttempt(ops, p) == ops[p].attempt + 1

\* After the delay: attempt++, the loop condition, and the next attempt or the
\* final throw.
Resumed(cfg, o, a) ==
    IF a <= getMaxAttempts(cfg.retry)
    THEN Attempted(cfg, [o EXCEPT !.attempt = a])
    ELSE [o EXCEPT !.attempt = a, !.pc = "Failed"]

ConcurrentOutcomes ==
    {FetchResponse(200, "OK", TRUE, TRUE, PartAbc),
     FetchResponse(404, "Not Found", TRUE, TRUE, ErrorBody),
     FetchResponse(503, "Service Unavailable", FALSE, FALSE, Null)}

KInit ==
    /\ kConfig \in [retry : {NoRetryStrategy, FixedDelayRetryStrategy(2, DefaultBaseDelay),
                             ExponentialBackoffRetryStrategy(DefaultMaxAttempts, DefaultBaseDelay, DefaultMaxDelay)},
                    auth : {"bearer"}, transformer : {"date"}]
    /\ kOps \in [Invocations -> {Invoked(op) : op \in {"searchParts", "deletePart"}}]
    /\ IdleExcept({"concurrent"})

\* Invocation p runs from its entry to its first await.
Enter(p) ==
    /\ kOps[p].pc = "Building"
    /\ kOps' = [kOps EXCEPT ![p] = Entered(kConfig, @)]
    /\ UNCHANGED kConfig
    /\ UNCHANGED notConcurrent

\* The transport call of invocation p settles and p runs to its next await,
\* its return or its throw.
SettleOf(p) ==
    /\ kOps[p].pc = "Awaiting"
    /\ \E raw \in ConcurrentOutcomes : kOps' = [kOps EXCEPT ![p] = Settled(kConfig, @, raw)]
    /\ UNCHANGED kConfig
    /\ UNCHANGED notConcurrent

\* The delay of invocation p ends and p runs to its next await or its throw.
ResumeOf(p) ==
    /\ kOps[p].pc = "Delaying"
    /\ kOps' = [kOps EXCEPT ![p] = Resumed(kConfig, @, NextAttempt(kOps, p))]
    /\ UNCHANGED kConfig
    /\ UNCHANGED notConcurrent

KNext ==
    \/ \E p \in Invocations : Enter(p)
    \/ \E p \in Invocations : SettleOf(p)
    \/ \E p \in Invocations : ResumeOf(p)

SpecConcurrent == KInit /\ [][KNext]_vars

\* One invocation running alone against the transport outcomes raws: its
\* locals when the last of them has just been handled (Handled), and when the
\* call that will get the next outcome has been made (Awaited).
RECURSIVE Awaited(_, _, _), Handled(_, _, _)
Awaited(cfg, op, raws) ==
    IF raws = <<>>
    THEN Entered(cfg, Invoked(op))
    ELSE Resumed(cfg, Handled(cfg, op, raws), Handled(cfg, op, raws).attempt + 1)
Handled(cfg, op, raws) ==
    Settled(cfg, Awaited(cfg, op, SubSeq(raws, 1, Len(raws) - 1)), raws[Len(raws)])

\* The points a lone invocation passes through with exactly these outcomes.
AloneStates(cfg, op, raws) ==
    IF raws = <<>>
    THEN {Invoked(op), Awaited(cfg, op, raws)}
    ELSE {Handled(cfg, op, raws)} \cup
         (IF Handled(cfg, op, raws).pc = "Delaying" THEN {Awaited(cfg, op, raws)} ELSE {})

\* C17: concurrent invocations on one client are independent: in every
\* interleaving each invocation's attempt count, delays and outcome are those
\* of the same operation running alone against the transport outcomes it
\* received, and each invocation has at most one transport call in flight.
C17_InvocationsIndependent ==
    \A p \in Invocations :
        /\ kOps[p] \in AloneStates(kConfig, kOps[p].op, kOps[p].raws)
        /\ kOps[p].inFlight = (IF kOps[p].pc = "Awaiting" THEN 1 ELSE 0)

\* Two invocations in flight at once, at different attempts.
C17_Witness ==
    /\ kConfig.retry.kind = "exp"
    /\ kOps[1].pc = "Awaiting" /\ kOps[1].attempt = 3 /\ kOps[1].delays = <<1000, 2000>>
    /\ kOps[2].pc = "Delaying" /\ kOps[2].attempt = 1 /\ kOps[2].calls = 1

(***************************************************************************)
(* The no-retry strategy.                                                   *)
(***************************************************************************)
\* The failure the first transport call ended in: the error request threw,
\* the APIError of a status >= 400, or the error of the transformer.
FirstFailure ==
    IF responses[1].thrown # ""
    THEN OtherError(responses[1].thrown)
    ELSE IF responses[1].status >= 400
         THEN APIError(responses[1].status, responses[1].statusText)
         ELSE OtherError("Error")

MockId(t) == [t |-> "str", s |-> "mock-", n |-> t, c |-> <<>>]
DateAt(t) == [t |-> "date", s |-> "", n |-> t, c |-> <<>>]

PartDTO(id, partNumber, name, description, price, quantity, status, category, createdAt, updatedAt) ==
    [id |-> id, partNumber |-> partNumber, name |-> name, description |-> description,
     price |-> price, quantity |-> quantity, status |-> status, category |-> category,
     createdAt |-> createdAt, updatedAt |-> updatedAt]

\* The three parts a new MockPartsAPIClient holds.
SeedParts ==
    <<PartDTO(Str("1"), Str("ENG-001"), Str("V8 Engine Block"), Str("engine block"), Num(2500), Num(5),
              Str("ACTIVE"), Str("Engine"), DateV("2024-01-01T10:00:00Z"), DateV("2024-01-01T10:00:00Z")),
      PartDTO(Str("2"), Str("BRK-002"), Str("Carbon Fiber Brake Pads"), Str("brake pads"), Num(150), Num(25),
              Str("ACTIVE"), Str("Brakes"), DateV("2024-01-02T10:00:00Z"), DateV("2024-01-02T10:00:00Z")),
      PartDTO(Str("3"), Str("SUS-003"), Str("Coilover Suspension Kit"), Str("suspension"), Num(800), Num(10),
              Str("ACTIVE"), Str("Suspension"), DateV("2024-01-03T10:00:00Z"), DateV("2024-01-03T10:00:00Z"))>>

Born(part) == [id |-> part.id, createdAt |-> part.createdAt]

\* The value of a key of a DTO object, undefined when the object has none.
Field(d, key) ==
    IF \E i \in DOMAIN d.c : d.c[i].k = key
    THEN d.c[CHOOSE i \in DOMAIN d.c : d.c[i].k = key].v
    ELSE Undefined

\* a ?? b and a || b
Coalesce(a, b) == IF a.t \in {"undefined", "null"} THEN b ELSE a
OrElse(a, b) == IF a.t \in {"undefined", "null"} \/ a = Str("") \/ a = Num(0) THEN b ELSE a

\* The newPart of createPart.
NewPart(d, t) ==
    PartDTO(MockId(t), Field(d, "partNumber"), Field(d, "name"), OrElse(Field(d, "description"), Str("")),
            Field(d, "price"), Field(d, "quantity"), Str("ACTIVE"), Field(d, "category"),
            DateAt(t), DateAt(t))

\* The updatedPart of updatePart: every field is named, id, status and
\* createdAt come from the stored part.
UpdatedPartSpreadingDto(existing, d, t) ==
    PartDTO(Coalesce(Field(d, "id"), existing.id),
            Coalesce(Field(d, "partNumber"), existing.partNumber),
            Coalesce(Field(d, "name"), existing.name),
            Coalesce(Field(d, "description"), existing.description),
            Coalesce(Field(d, "price"), existing.price),
            Coalesce(Field(d, "quantity"), existing.quantity),
            existing.status,
            Coalesce(Field(d, "category"), existing.category),
            existing.createdAt, DateAt(t))
UpdatedPart(existing, d, t) ==
    PartDTO(existing.id,
            Coalesce(Field(d, "partNumber"), existing.partNumber),
            Coalesce(Field(d, "name"), existing.name),
            Coalesce(Field(d, "description"), existing.description),
            Coalesce(Field(d, "price"), existing.price),
            Coalesce(Field(d, "quantity"), existing.quantity),
            existing.status,
            Coalesce(Field(d, "category"), existing.category),
            existing.createdAt, DateAt(t))

\* mockParts.findIndex(p => p.id === id); 0 stands for -1.
FindIndex(parts, id) ==
    IF \E i \in DOMAIN parts : parts[i].id = id
    THEN CHOOSE i \in DOMAIN parts : parts[i].id = id /\ \A j \in 1..(i - 1) : parts[j].id # id
    ELSE 0

\* array.splice(i, 1)
Splice(seq, i) == SubSeq(seq, 1, i - 1) \o SubSeq(seq, i + 1, Len(seq))

MaxMockOps == 2
MaxNow == 1

NoPart ==
    PartDTO(Undefined, Undefined, Undefined, Undefined, Undefined, Undefined, Undefined, Undefined,
            Undefined, Undefined)
IdArguments == {Str("1"), Str("missing")} \cup {MockId(t) : t \in 0..MaxNow}
UpdateDtos ==
    {Obj(a \o b) : a \in Opt("price", {Num(7), Null}), b \in Opt("id", {Str("2")})}

\* A run exercises the mock client or the domain Part: the two share nothing
\* but the clock.
MockUntouched == mLast.op = "none"
DomainUntouched == Len(dEvents) = 1 /\ dLast.made = "none"

MockDone(op, id, threw, value) ==
    /\ mLast.n < MaxMockOps
    /\ mLast' = [op |-> op, id |-> id, threw |-> threw, value |-> value, n |-> mLast.n + 1]

\* The clock moves on between two operations.
ClockTick ==
    /\ now < MaxNow
    /\ now' = now + 1
    /\ UNCHANGED notClock

MockCreatePart ==
    /\ DomainUntouched
    /\ \E d \in {CreatePartDto} :
        /\ mockParts' = Append(mockParts, NewPart(d, now))
        /\ mBorn' = Append(mBorn, Born(NewPart(d, now)))
        /\ MockDone("createPart", Undefined, FALSE, NewPart(d, now))
    /\ UNCHANGED notMock

MockUpdatePart ==
    /\ DomainUntouched
    /\ \E id \in IdArguments, d \in UpdateDtos :
        IF FindIndex(mockParts, id) = 0
        THEN /\ MockDone("updatePart", id, TRUE, NoPart)
             /\ UNCHANGED <<mockParts, mBorn>>
        ELSE /\ mockParts' = [mockParts EXCEPT ![FindIndex(mockParts, id)] = UpdatedPart(@, d, now)]
             /\ MockDone("updatePart", id, FALSE, UpdatedPart(mockParts[FindIndex(mockParts, id)], d, now))
             /\ UNCHANGED mBorn
    /\ UNCHANGED notMock

MockDeletePart ==
    /\ DomainUntouched
    /\ \E id \in IdArguments :
        IF FindIndex(mockParts, id) = 0
        THEN /\ MockDone("deletePart", id, TRUE, NoPart)
             /\ UNCHANGED <<mockParts, mBorn>>
        ELSE /\ mockParts' = Splice(mockParts, FindIndex(mockParts, id))
             /\ mBorn' = Splice(mBorn, FindIndex(mockParts, id))
             /\ MockDone("deletePart", id, FALSE, NoPart)
    /\ UNCHANGED notMock

(***************************************************************************)
(* The domain Part and its value objects. A number is written               *)
(* [kind, milli]: a finite number of milli thousandths, NaN, Infinity or    *)
(* -Infinity.                                                               *)
(***************************************************************************)
Finite(milli) == [kind |-> "finite", milli |-> milli]
NotFinite(kind) == [kind |-> kind, milli |-> 0]
NoNumber == NotFinite("none")

\* value < 0 and Number.isFinite(value)
IsNegative(x) == (x.kind = "finite" /\ x.milli < 0) \/ x.kind = "-Infinity"
IsFinite(x) == x.kind = "finite"
\* Number.isInteger(value)
IsInteger(x) == x.kind = "finite" /\ x.milli % 1000 = 0

\* Math.round(value * 100) / 100 of a finite value that is not negative.
RoundToCents(x) == Finite(((x.milli + 5) \div 10) * 10)

\* new Price(value): the ValidationError it throws ("" when none) and the
\* value it wraps.
PriceThrowsOnlyNotFinite(x) == IF ~IsFinite(x) THEN "ValidationError" ELSE ""
PriceThrows(x) == IF IsNegative(x) \/ ~IsFinite(x) THEN "ValidationError" ELSE ""
PriceValue(x) == RoundToCents(x)

\* new Quantity(value)
QuantityThrows(x) == IF IsNegative(x) \/ ~IsInteger(x) THEN "ValidationError" ELSE ""
QuantityValue(x) == x

PartStatus == {"ACTIVE", "INACTIVE", "DISCONTINUED"}

RawNumbers ==
    {Finite(0 - 1), Finite(0), Finite(5), Finite(2000), Finite(10999),
     NotFinite("NaN"), NotFinite("Infinity"), NotFinite("-Infinity")}
Descriptions == {"", "new text"}
PartIds == {"uuid-a", "uuid-b"}

MaxDomainOps == 2

PartUpdated(id, field) == [eventType |-> "PartUpdated", partId |-> id, changes |-> field]

\* Part.create(props) with value objects that were constructed: a generated
\* id, createdAt = updatedAt = now, and the PartCreated event.
PartCreate(id, price, quantity, t) ==
    [id |-> id,
     props |-> [partNumber |-> "PN-1", name |-> "Bolt", description |-> "", price |-> price,
                quantity |-> quantity, status |-> "ACTIVE", category |-> "Hardware",
                createdAt |-> DateAt(t), updatedAt |-> DateAt(t)]]

DomainCreate(rawPrices, rawQuantities) ==
    /\ \E id \in PartIds, p \in {x \in rawPrices : PriceThrows(x) = ""},
          q \in {x \in rawQuantities : QuantityThrows(x) = ""} :
        /\ dPart = PartCreate(id, PriceValue(p), QuantityValue(q), now)
        /\ dBornId = id
        /\ dEvents = <<[eventType |-> "PartCreated", partId |-> id, changes |-> ""]>>
    /\ dLast = [made |-> "none", raw |-> NoNumber, threw |-> "", value |-> NoNumber]

\* A method of the Part has run: updatedAt and the PartUpdated event.
Touched(part, field, t) ==
    /\ Len(dEvents) <= MaxDomainOps
    /\ dPart' = [part EXCEPT !.props.updatedAt = DateAt(t)]
    /\ dEvents' = Append(dEvents, PartUpdated(part.id, field))

\* part.updatePrice(new Price(raw)): the constructor runs first and, when it
\* throws, updatePrice is never entered.
UpdatePrice ==
    /\ MockUntouched
    /\ \E raw \in RawNumbers :
        IF PriceThrows(raw) # ""
        THEN /\ dLast' = [made |-> "Price", raw |-> raw, threw |-> PriceThrows(raw), value |-> NoNumber]
             /\ UNCHANGED <<dPart, dEvents>>
        ELSE /\ dLast' = [made |-> "Price", raw |-> raw, threw |-> "", value |-> PriceValue(raw)]
             /\ Touched([dPart EXCEPT !.props.price = PriceValue(raw)], "price", now)
    /\ UNCHANGED dBornId
    /\ UNCHANGED notDomain

\* part.updateQuantity(new Quantity(raw))
UpdateQuantity ==
    /\ MockUntouched
    /\ \E raw \in RawNumbers :
        IF QuantityThrows(raw) # ""
        THEN /\ dLast' = [made |-> "Quantity", raw |-> raw, threw |-> QuantityThrows(raw), value |-> NoNumber]
             /\ UNCHANGED <<dPart, dEvents>>
        ELSE /\ dLast' = [made |-> "Quantity", raw |-> raw, threw |-> "", value |-> QuantityValue(raw)]
             /\ Touched([dPart EXCEPT !.props.quantity = QuantityValue(raw)], "quantity", now)
    /\ UNCHANGED dBornId
    /\ UNCHANGED notDomain

ChangeStatus ==
    /\ MockUntouched
    /\ \E newStatus \in PartStatus : Touched([dPart EXCEPT !.props.status = newStatus], "status", now)
    /\ UNCHANGED <<dBornId, dLast>>
    /\ UNCHANGED notDomain

UpdateDescription ==
    /\ MockUntouched
    /\ \E description \in Descriptions :
        Touched([dPart EXCEPT !.props.description = description], "description", now)
    /\ UNCHANGED <<dBornId, dLast>>
    /\ UNCHANGED notDomain

\* A Part fresh from Part.create, alone.
DInit ==
    /\ now = 0
    /\ DomainCreate(RawNumbers, RawNumbers)
    /\ IdleExcept({"clock", "domain"})

DNext ==
    \/ ClockTick
    \/ UpdatePrice
    \/ UpdateQuantity
    \/ ChangeStatus
    \/ UpdateDescription

SpecDomain == DInit /\ [][DNext]_vars

\* A new MockPartsAPIClient and a Part fresh from Part.create.
PInit ==
    /\ now = 0
    /\ mockParts = SeedParts
    /\ mBorn = [i \in DOMAIN SeedParts |-> Born(SeedParts[i])]
    /\ mLast = [op |-> "none", id |-> Undefined, threw |-> FALSE, value |-> NoPart, n |-> 0]
    /\ DomainCreate({Finite(10999)}, {Finite(2000)})
    /\ IdleExcept({"clock", "mock", "domain"})

PNext ==
    \/ ClockTick
    \/ MockCreatePart
    \/ MockUpdatePart
    \/ MockDeletePart
    \/ UpdatePrice
    \/ UpdateQuantity
    \/ ChangeStatus
    \/ UpdateDescription

SpecParts == PInit /\ [][PNext]_vars

\* C19: an identifier, once assigned, never changes: after any sequence of
\* createPart, updatePart and deletePart on the MockPartsAPIClient every stored
\* part has the id and the createdAt it entered the store with, updatePart(id,
\* dto) returns a record with the id it was given whatever the dto holds, and
\* the id of a domain Part is the one Part.create gave it after every update
\* method.
C19_IdNeverChanges ==
    /\ Len(mockParts) = Len(mBorn)
    /\ \A i \in DOMAIN mockParts : Born(mockParts[i]) = mBorn[i]
    /\ (mLast.op = "updatePart" /\ ~mLast.threw) => mLast.value.id = mLast.id
    /\ dPart.id = dBornId
    /\ \A i \in DOMAIN dEvents : dEvents[i].partId = dBornId

\* updatePart on a part createPart stored earlier.
C19_Witness ==
    /\ mLast.op = "updatePart"
    /\ ~mLast.threw
    /\ mLast.id = MockId(0)
    /\ mLast.value.price = Num(7)
    /\ Len(mockParts) = 4

\* C20: for every Part obtained from Part.create followed by any sequence of
\* updatePrice and updateQuantity, the price is non-negative with at most two
\* decimal places and the quantity is a non-negative integer; constructing a
\* Price from a negative or non-finite number, or a Quantity from a negative or
\* non-integer number, throws a ValidationError and produces no value object.
C20_PriceAndQuantityValid ==
    /\ IsFinite(dPart.props.price)
    /\ dPart.props.price.milli >= 0
    /\ dPart.props.price.milli % 10 = 0
    /\ IsFinite(dPart.props.quantity)
    /\ dPart.props.quantity.milli >= 0
    /\ dPart.props.quantity.milli % 1000 = 0
    /\ (dLast.made = "Price" /\ (IsNegative(dLast.raw) \/ ~IsFinite(dLast.raw))) =>
            (dLast.threw = "ValidationError" /\ dLast.value = NoNumber)
    /\ (dLast.made = "Quantity" /\ (IsNegative(dLast.raw) \/ ~IsInteger(dLast.raw))) =>
            (dLast.threw = "ValidationError" /\ dLast.value = NoNumber)

\* updateQuantity, then updatePrice(new Price(10.999)), which stores 11.
C20_Witness ==
    /\ dLast.made = "Price"
    /\ dLast.raw = Finite(10999)
    /\ dPart.props.price = Finite(11000)
    /\ dPart.props.quantity = Finite(0)
    /\ Len(dEvents) = 3
    /\ dEvents[2].changes = "quantity"

(***************************************************************************)
(* C21: during any execution of an operation, for any retry strategy and    *)
(* any sequence of transport outcomes, the attempt counter of               *)
(* executeRequest never exceeds what the strategy's getMaxAttempts()        *)
(* returns.  The counter exists from the moment executeRequest is entered.  *)
(***************************************************************************)
C21_AttemptWithinMax ==
    pc # "Building" => attempt <= getMaxAttempts(config.retry)

(***************************************************************************)
(* C22: an operation's execution follows only the transitions Building ->   *)
(* Awaiting-response, Awaiting-response -> Succeeded, Awaiting-response ->  *)
(* Deciding-retry, Deciding-retry -> Delaying, Deciding-retry -> Failed and *)
(* Delaying -> Awaiting-response, for any retry strategy: every delay is    *)
(* followed by another transport call, never directly by failure.           *)
(* Deciding-retry is the catch block, which runs within one step, so the    *)
(* steps seen between awaits are the ones below.                            *)
(***************************************************************************)
SpecifiedTransitions ==
    {<<"Building", "Awaiting">>, <<"Awaiting", "Succeeded">>, <<"Awaiting", "Delaying">>,
     <<"Awaiting", "Failed">>, <<"Delaying", "Awaiting">>}

C22_OnlySpecifiedTransitions ==
    [][/\ <<pc, pc'>> \in SpecifiedTransitions
       /\ pc = "Delaying" => calls' = calls + 1]_cvars

\* A body as response.json() builds it: no Date anywhere in it.
RECURSIVE IsJson(_)
IsJson(v) ==
    /\ v.t # "date"
    /\ \A i \in DOMAIN v.c : IsJson(v.c[i].v)

\* out is in but for the designated date fields: a value that is no object
\* is the same, an array has the same number of items, an object the same
\* keys in the same order, and every item and every field that is not a
\* designated date field is in turn the same but for the date fields in it.
RECURSIVE SameButDateFields(_, _, _)
SameButDateFields(fields, in, out) ==
    IF in.t \notin {"obj", "arr"} THEN out = in
    ELSE /\ out.t = in.t
         /\ Len(out.c) = Len(in.c)
         /\ \A i \in DOMAIN in.c :
              /\ out.c[i].k = in.c[i].k
              /\ (in.t = "arr" \/ in.c[i].k \notin fields)
                    => SameButDateFields(fields, in.c[i].v, out.c[i].v)

(***************************************************************************)
(* C23: the date transformer changes nothing but designated date fields:    *)
(* for every response body, every value that is no object and every field   *)
(* that is not a designated date field has in the output the value it had   *)
(* in the input, through nested objects and arrays, and the input body      *)
(* holds after transform what it held before.                               *)
(***************************************************************************)
C23_OnlyDateFieldsChange ==
    \A i \in DOMAIN tOuts :
        (tKind = "date" /\ IsJson(TransformInput(i))) =>
            /\ SameButDateFields(DateFields, TransformInput(i), tOuts[i])
            /\ tArgs[i] = TransformInput(i)

\* A body with a nested part has been transformed: the part's createdAt is
\* no longer the string it was, and the part's name, which reads as a date,
\* is in a field that is not designated.
C23_Witness ==
    /\ tKind = "date"
    /\ tIn \in NestedBodies
    /\ Len(tOuts) >= 1
    /\ tOuts[1] # tIn
    /\ \E i \in DOMAIN tIn.c[1].v.c :
          /\ tIn.c[1].v.c[i].k = "createdAt"
          /\ tIn.c[1].v.c[i].v = Str(IsoA)
          /\ tOuts[1].c[1].v.c[i].v # Str(IsoA)

(***************************************************************************)
(* The legacy PartsAPIClient of the SDK's index.ts: each operation calls    *)
(* request, a for loop over the attempts around fetch, and parses the       *)
(* response request returns.  One step per stretch of code between awaits.  *)
(***************************************************************************)
LegacyInit ==
    /\ lConfig \in [retryAttempts : 0..MaxAttemptsBound, retryDelay : {DefaultBaseDelay}]
    /\ lOp \in Operations
    /\ lPc = "Building"
    /\ lAttempt = 0
    /\ lCalls = 0
    /\ lDelays = <<>>
    /\ lError = OtherError("")
    /\ IdleExcept({"legacy"})

\* The loop test of request with the loop variable at a: fetch is called, or
\* the loop is left and 'Max retry attempts exceeded' is thrown.
LegacyLoop(a) ==
    /\ lAttempt' = a
    /\ IF a <= lConfig.retryAttempts
       THEN /\ lCalls' = lCalls + 1
            /\ lPc' = "Awaiting"
            /\ lError' = lError
       ELSE /\ lCalls' = lCalls
            /\ lPc' = "Failed"
            /\ lError' = OtherError("NetworkError")

\* An operation is called: request enters its loop with attempt = 1.
LegacyRequest ==
    /\ lPc = "Building"
    /\ LegacyLoop(1)
    /\ UNCHANGED <<lConfig, lOp, lDelays>>
    /\ UNCHANGED notLegacy

\* parseResponse on the response request has returned; deletePart does not
\* call it.
LegacyParseResponse(op, raw) ==
    IF op = "deletePart" \/ (raw.json /\ raw.parses)
    THEN OtherError("")
    ELSE APIError(raw.status, raw.statusText)

\* The catch block of request: a client error is rethrown, the last attempt
\* rethrows (a TypeError of fetch as a NetworkError), otherwise the delay is
\* awaited.
LegacyCatch(error) ==
    IF error.type = "APIError" /\ error.status >= 400 /\ error.status < 500
    THEN /\ lPc' = "Failed" /\ lError' = error /\ lDelays' = lDelays
    ELSE IF lAttempt = lConfig.retryAttempts
    THEN /\ lPc' = "Failed"
         /\ lError' = IF error.type = "TypeError" THEN OtherError("NetworkError") ELSE error
         /\ lDelays' = lDelays
    ELSE /\ lPc' = "Delaying"
         /\ lError' = lError
         /\ lDelays' = Append(lDelays, lConfig.retryDelay * 2^(lAttempt - 1))

\* The awaited fetch settles.
LegacyFetchSettles ==
    /\ lPc = "Awaiting"
    /\ \E raw \in FetchOutcomes :
        IF raw.kind # "response"
        THEN LegacyCatch(OtherError(IF raw.kind = "fetchTypeError" THEN "TypeError" ELSE "AbortError"))
        ELSE IF raw.status < 200 \/ raw.status > 299
        THEN LegacyCatch(APIError(raw.status, raw.statusText))
        ELSE /\ lError' = LegacyParseResponse(lOp, raw)
             /\ lPc' = IF LegacyParseResponse(lOp, raw).type = "" THEN "Succeeded" ELSE "Failed"
             /\ lDelays' = lDelays
    /\ UNCHANGED <<lConfig, lOp, lAttempt, lCalls>>
    /\ UNCHANGED notLegacy

\* The delay's timer fires: attempt++ and the loop test.
LegacyDelayElapses ==
    /\ lPc = "Delaying"
    /\ LegacyLoop(lAttempt + 1)
    /\ UNCHANGED <<lConfig, lOp, lDelays>>
    /\ UNCHANGED notLegacy

LegacyNext ==
    \/ LegacyRequest
    \/ LegacyFetchSettles
    \/ LegacyDelayElapses

SpecLegacy == LegacyInit /\ [][LegacyNext]_vars

Max(a, b) == IF a >= b THEN a ELSE b

(***************************************************************************)
(* C24: every client operation ends in Succeeded or Failed after at least   *)
(* one and at most max(1, maximum of attempts) transport calls, for any     *)
(* retry strategy and any transport outcomes.  An operation that has ended  *)
(* has made a number of calls within these bounds, in the client with       *)
(* strategies and in the legacy client with its retryAttempts.              *)
(***************************************************************************)
C24_CallsWithinBounds ==
    /\ Terminal => calls \in 1..Max(1, getMaxAttempts(config.retry))
    /\ lPc \in {"Succeeded", "Failed"} => lCalls \in 1..Max(1, lConfig.retryAttempts)

(***************************************************************************)
(* C28: after any sequence and any interleaving of createPart, updatePart   *)
(* and deletePart calls on one MockPartsAPIClient, the stored parts have    *)
(* pairwise distinct ids, so that an id addresses exactly one part.         *)
(***************************************************************************)
C28_MockIdsDistinct ==
    \A i, j \in DOMAIN mockParts :
        mockParts[i].id = mockParts[j].id => i = j

(***************************************************************************)
(* The text value objects (PartNumber, PartName, Category) and              *)
(* CreatePartUseCase.execute over a PartRepository.  "memory" is            *)
(* InMemoryPartRepository; "failing" is a repository whose exists and save  *)
(* may also return a failed Result or reject, storing nothing then.         *)
(***************************************************************************)
MaxPartNumberLength == 50
MaxPartNameLength == 200
LongText == "PN-0123456789-0123456789-0123456789-0123456789-0123"

\* String.prototype.trim and toUpperCase on the texts of the model.
Trim(x) ==
    CASE x = " ENG-001 " -> "ENG-001"
      [] x = "   " -> ""
      [] OTHER -> x
ToUpperCase(x) ==
    CASE x = "eng-001" -> "ENG-001"
      [] x = "Engine" -> "ENGINE"
      [] OTHER -> x

PartNumberThrows(x) ==
    IF x = "" \/ Len(Trim(x)) = 0 \/ Len(x) > MaxPartNumberLength THEN "ValidationError" ELSE ""
PartNumberValue(x) == ToUpperCase(Trim(x))

PartNameThrows(x) ==
    IF x = "" \/ Len(Trim(x)) = 0 \/ Len(x) > MaxPartNameLength THEN "ValidationError" ELSE ""

CategoryThrows(x) == IF x = "" \/ Len(Trim(x)) = 0 THEN "ValidationError" ELSE ""

\* The arguments of Part.create in execute: the first constructor that
\* throws ends the try block, and only the name is checked here.
CreateThrowsNameOnly(d) == PartNameThrows(d.name)

\* The arguments of Part.create in execute: the first constructor that
\* throws ends the try block.
CreateThrows(d) ==
    CASE PartNameThrows(d.name) # "" -> PartNameThrows(d.name)
      [] PriceThrows(d.price) # "" -> PriceThrows(d.price)
      [] QuantityThrows(d.quantity) # "" -> QuantityThrows(d.quantity)
      [] OTHER -> CategoryThrows(d.category)

\* Part.create with the id PartId.generate returns.
CreatedPart(id, d) ==
    [id |-> id, partNumber |-> PartNumberValue(d.partNumber), name |-> Trim(d.name),
     price |-> PriceValue(d.price), quantity |-> QuantityValue(d.quantity),
     status |-> "ACTIVE", category |-> Trim(d.category)]

\* InMemoryPartRepository.exists: some part has this part number.
RepositoryExists(parts, partNumber) == \E i \in DOMAIN parts : parts[i].partNumber = partNumber

\* InMemoryPartRepository.save: Map.set under the part's id.
RepositorySave(parts, part) ==
    IF \E i \in DOMAIN parts : parts[i].id = part.id
    THEN [i \in DOMAIN parts |-> IF parts[i].id = part.id THEN part ELSE parts[i]]
    ELSE Append(parts, part)

\* What awaiting repository.exists gives: its Result, or a rejection.
ExistsOutcomes(kind, parts, partNumber) ==
    {IF RepositoryExists(parts, partNumber) THEN "true" ELSE "false"}
    \cup (IF kind = "failing" THEN {"fail", "reject"} ELSE {})

SaveOutcomes(kind) == {"ok"} \cup (IF kind = "failing" THEN {"fail", "reject"} ELSE {})

\* The catch block of execute: whatever was thrown becomes a failed Result.
ExecuteCatch(thrown) == "fail"
ValidDto ==
    [partNumber |-> "NEW-9", name |-> "Bolt", price |-> Finite(10999), quantity |-> Finite(2000),
     category |-> "Engine"]

\* The dtos execute is called with: part numbers that are new, that are
\* stored already in another spelling, that are empty or too long, and valid
\* dtos with one field that its constructor refuses.
CreateDtos ==
    {[ValidDto EXCEPT !.partNumber = x] : x \in {"NEW-9", "eng-001", " ENG-001 ", "", "   ", LongText}}
    \cup {[ValidDto EXCEPT !.name = ""], [ValidDto EXCEPT !.category = "   "]}
    \cup {[ValidDto EXCEPT !.price = x] : x \in {Finite(0 - 1), NotFinite("NaN")}}
    \cup {[ValidDto EXCEPT !.quantity = x] : x \in {Finite(2500)}}

\* The part a seeded repository holds; the ids PartId.generate hands out are
\* 1, 2, ..., a call that has generated none carries 0.
SeedPart ==
    [id |-> 0 - 1, partNumber |-> "ENG-001", name |-> "V8 Engine Block", price |-> Finite(2500000),
     quantity |-> Finite(5000), status |-> "ACTIVE", category |-> "Engine"]

NotCalled ==
    [dto |-> ValidDto, pc |-> "idle", exists |-> "", id |-> 0, save |-> "", result |-> ""]

UInit ==
    /\ uRepository \in {"memory", "failing"}
    /\ uParts \in {<<>>, <<SeedPart>>}
    /\ uOps = [p \in Invocations |-> NotCalled]
    /\ uIds = 0
    /\ uSearch = <<>>
    /\ IdleExcept({"usecase"})

\* execute(dto) is called and runs to its first await: the part number is
\* built and repository.exists is called, which looks at the Map at once.
UseCaseExecute(p) ==
    /\ uOps[p].pc = "idle"
    /\ \E d \in CreateDtos :
        IF PartNumberThrows(d.partNumber) # ""
        THEN uOps' = [uOps EXCEPT ![p] = [@ EXCEPT !.dto = d, !.pc = "done",
                                            !.result = ExecuteCatch(PartNumberThrows(d.partNumber))]]
        ELSE \E e \in ExistsOutcomes(uRepository, uParts, PartNumberValue(d.partNumber)) :
                uOps' = [uOps EXCEPT ![p] = [@ EXCEPT !.dto = d, !.pc = "exists", !.exists = e]]
    /\ UNCHANGED <<uRepository, uParts, uIds, uSearch>>
    /\ UNCHANGED notUseCase

\* The awaited exists has settled: execute goes on to its return or up to the
\* await of repository.save, which sets the Map at once when it stores.
UseCaseAfterExists(p) ==
    /\ uOps[p].pc = "exists"
    /\ IF uOps[p].exists = "reject"
       THEN /\ uOps' = [uOps EXCEPT ![p] = [@ EXCEPT !.pc = "done", !.result = ExecuteCatch("Error")]]
            /\ UNCHANGED <<uParts, uIds>>
       ELSE IF uOps[p].exists \in {"fail", "true"}
       THEN /\ uOps' = [uOps EXCEPT ![p] = [@ EXCEPT !.pc = "done", !.result = "fail"]]
            /\ UNCHANGED <<uParts, uIds>>
       ELSE IF CreateThrows(uOps[p].dto) # ""
       THEN /\ uOps' = [uOps EXCEPT ![p] = [@ EXCEPT !.pc = "done",
                                              !.result = ExecuteCatch(CreateThrows(uOps[p].dto))]]
            /\ UNCHANGED <<uParts, uIds>>
       ELSE /\ uIds' = uIds + 1
            /\ \E s \in SaveOutcomes(uRepository) :
                /\ uOps' = [uOps EXCEPT ![p] = [@ EXCEPT !.pc = "save", !.id = uIds + 1, !.save = s]]
                /\ uParts' = IF s = "ok"
                             THEN RepositorySave(uParts, CreatedPart(uIds + 1, uOps[p].dto))
                             ELSE uParts
    /\ UNCHANGED <<uRepository, uSearch>>
    /\ UNCHANGED notUseCase

\* The awaited save has settled: execute returns its Result.
UseCaseAfterSave(p) ==
    /\ uOps[p].pc = "save"
    /\ uOps' = [uOps EXCEPT ![p] = [@ EXCEPT !.pc = "done",
            !.result = CASE uOps[p].save = "ok" -> "ok"
                         [] uOps[p].save = "fail" -> "fail"
                         [] OTHER -> ExecuteCatch("Error")]]
    /\ UNCHANGED <<uRepository, uParts, uIds, uSearch>>
    /\ UNCHANGED notUseCase

UNext ==
    \E p \in Invocations :
        \/ UseCaseExecute(p)
        \/ UseCaseAfterExists(p)
        \/ UseCaseAfterSave(p)

SpecUseCase == UInit /\ [][UNext]_vars

(***************************************************************************)
(* C25: part numbers are unique in the repository: after any interleaving   *)
(* of concurrent CreatePartUseCase.execute calls over one                   *)
(* InMemoryPartRepository no two stored parts have the same (trimmed,       *)
(* upper-cased) part number, and of several calls with the same part        *)
(* number at most one returns a successful Result.                          *)
(***************************************************************************)
C25_PartNumbersUnique ==
    uRepository = "memory" =>
        /\ \A i, j \in DOMAIN uParts : uParts[i].partNumber = uParts[j].partNumber => i = j
        /\ \A p, q \in Invocations :
              (/\ uOps[p].result = "ok"
               /\ uOps[q].result = "ok"
               /\ PartNumberValue(uOps[p].dto.partNumber) = PartNumberValue(uOps[q].dto.partNumber))
                  => p = q

\* The fields of a dto that a constructor of execute refuses.
InvalidDto(d) ==
    \/ PartNumberThrows(d.partNumber) # ""
    \/ PartNameThrows(d.name) # ""
    \/ PriceThrows(d.price) # ""
    \/ QuantityThrows(d.quantity) # ""
    \/ CategoryThrows(d.category) # ""

(***************************************************************************)
(* C29: CreatePartUseCase.execute never throws, and whenever it returns a   *)
(* failed Result the repository is as it was: on an invalid part number,    *)
(* name, price, quantity or category, on a part number that exists already  *)
(* and on a failed exists or save call it returns a failed Result and no    *)
(* part is added or replaced.  Every stored part is the seeded one,         *)
(* untouched, or the part of a call whose save succeeded, and a finished    *)
(* call has returned a Result.                                              *)
(***************************************************************************)
C29_FailureLeavesRepository ==
    /\ \A p \in Invocations :
          /\ uOps[p].pc = "done" => uOps[p].result \in {"ok", "fail"}
          /\ uOps[p].result = "fail" => \A i \in DOMAIN uParts : uParts[i].id # uOps[p].id
          /\ (/\ uOps[p].pc = "done"
              /\ \/ InvalidDto(uOps[p].dto)
                 \/ uOps[p].exists \in {"true", "fail", "reject"}
                 \/ uOps[p].save \in {"fail", "reject"})
                => uOps[p].result = "fail"
    /\ \A i \in DOMAIN uParts :
          \/ uParts[i] = SeedPart
          \/ \E p \in Invocations :
                /\ uOps[p].id = uParts[i].id
                /\ uOps[p].save = "ok"
                /\ ~InvalidDto(uOps[p].dto)
                /\ uParts[i] = CreatedPart(uOps[p].id, uOps[p].dto)
    /\ Len(uParts) =
          Cardinality({p \in Invocations : uOps[p].save = "ok"})
          + Cardinality({i \in DOMAIN uParts : uParts[i] = SeedPart})

\* Calls have failed in each way while another one has stored its part: a
\* refused price, a part number that exists, and a save that failed.
C29_Witness ==
    \E p, q \in Invocations :
        /\ uOps[p].result = "fail"
        /\ uOps[q].result = "ok"
        /\ \/ PriceThrows(uOps[p].dto.price) # ""
           \/ uOps[p].exists = "true"
           \/ uOps[p].save = "fail"
        /\ \E i \in DOMAIN uParts : uParts[i].id = uOps[q].id

(***************************************************************************)
(* SearchPartsUseCase.execute over InMemoryPartRepository.search.  A search *)
(* dto carries category, status and inStock criteria and page and limit;    *)
(* "" and 0 stand for a field the dto leaves undefined.                     *)
(***************************************************************************)
DefaultLimit == 10

ToLowerCase(x) ==
    CASE x = "Engine" -> "engine"
      [] x = "ENGINE" -> "engine"
      [] x = "Brakes" -> "brakes"
      [] OTHER -> x

\* String.prototype.includes on the texts of the model, none of which is
\* part of another.
Includes(x, y) == x = y

\* The filters of search that the dto's criteria switch on.
Matches(part, criteria) ==
    /\ criteria.category # "" => Includes(ToLowerCase(part.category), ToLowerCase(criteria.category))
    /\ criteria.status # "" => part.status = criteria.status
    /\ criteria.inStock => part.quantity.milli > 0

\* Array.prototype.slice(startIndex, endIndex) with indices from 0.
Slice(seq, startIndex, endIndex) ==
    [i \in 1..(Min(endIndex, Len(seq)) - Min(startIndex, Len(seq))) |-> seq[startIndex + i]]

\* InMemoryPartRepository.search: the filters, then the page.
RepositorySearch(parts, criteria) ==
    LET page == IF criteria.page = 0 THEN 1 ELSE criteria.page
        limit == IF criteria.limit = 0 THEN DefaultLimit ELSE criteria.limit
        startIndex == (page - 1) * limit
    IN  Slice(SelectSeq(parts, LAMBDA p : Matches(p, criteria)), startIndex, startIndex + limit)

\* Math.ceil(a / b) for b > 0.
Ceil(a, b) == (a + b - 1) \div b

\* What execute returns for a dto: the criteria with page and limit
\* defaulted, the parts search returns, and the counts taken from them.
SearchResponse(parts, d) ==
    LET criteria == [d EXCEPT !.page = IF d.page = 0 THEN 1 ELSE d.page,
                              !.limit = IF d.limit = 0 THEN DefaultLimit ELSE d.limit]
        found == RepositorySearch(parts, criteria)
    IN  [parts |-> found, total |-> Len(found), page |-> criteria.page, limit |-> criteria.limit,
         totalPages |-> Ceil(Len(found), criteria.limit)]

MaxPage == 2
MaxLimit == 2

SearchUseCaseDtos ==
    [category : {"", "engine", "Brakes"}, status : {"", "ACTIVE"}, inStock : BOOLEAN,
     page : 0..MaxPage, limit : 0..MaxLimit]

Catalogue ==
    <<SeedPart,
      [SeedPart EXCEPT !.id = 1, !.partNumber = "ENG-002", !.quantity = Finite(0)],
      [SeedPart EXCEPT !.id = 2, !.partNumber = "BRK-002", !.category = "Brakes"],
      [SeedPart EXCEPT !.id = 3, !.partNumber = "ENG-003", !.status = "INACTIVE"]>>

XInit ==
    /\ uRepository = "memory"
    /\ uParts \in {SubSeq(Catalogue, 1, n) : n \in 0..Len(Catalogue)}
    /\ uOps = <<>>
    /\ uIds = 0
    /\ uSearch = <<>>
    /\ IdleExcept({"usecase"})

SearchUseCaseExecute ==
    /\ uSearch = <<>>
    /\ \E d \in SearchUseCaseDtos :
        uSearch' = <<[dto |-> d, response |-> SearchResponse(uParts, d)]>>
    /\ UNCHANGED <<uRepository, uParts, uOps, uIds>>
    /\ UNCHANGED notUseCase

XNext == SearchUseCaseExecute

SpecSearchUseCase == XInit /\ [][XNext]_vars

\* The stored parts that match the criteria of a dto, whatever the page.
Matching(parts, d) == SelectSeq(parts, LAMBDA p : Matches(p, d))

(***************************************************************************)
(* C30: in the response of SearchPartsUseCase.execute over an               *)
(* InMemoryPartRepository, total is the number of stored parts that match   *)
(* the criteria, whatever page and limit are, totalPages is                 *)
(* ceil(total / limit), and parts is the page-th slice of at most limit     *)
(* matching parts.                                                          *)
(***************************************************************************)
C30_SearchResponseCounts ==
    \A i \in DOMAIN uSearch :
        LET r == uSearch[i].response
            all == Matching(uParts, uSearch[i].dto)
        IN  /\ r.total = Len(all)
            /\ r.totalPages = Ceil(Len(all), r.limit)
            /\ r.parts = Slice(all, (r.page - 1) * r.limit, r.page * r.limit)

(***************************************************************************)
(* usePartsSearch (parts-ui).  A search() call runs to its await of         *)
(* client.searchParts and later, when that promise settles, through its     *)
(* try, catch and finally.  What a call brings back carries the number of   *)
(* the call and the criteria it was issued with.                            *)
(***************************************************************************)
MaxSearches == 3

NoValue == [of |-> 0, criteria |-> ""]

HookInit ==
    /\ fCriteria \in {"engine", "brakes"}
    /\ fResults = NoValue
    /\ fLoading = FALSE
    /\ fError = NoValue
    /\ fCalls = <<>>
    /\ IdleExcept({"hook"})

\* updateCriteria merges new criteria into the state.
UpdateCriteria ==
    /\ \E c \in {"engine", "brakes"} :
        /\ c # fCriteria
        /\ fCriteria' = c
    /\ UNCHANGED <<fResults, fLoading, fError, fCalls>>
    /\ UNCHANGED notHook

\* search() up to its await: setLoading(true), setError(null) and the call
\* of client.searchParts with the criteria of this render.
HookSearch ==
    /\ Len(fCalls) < MaxSearches
    /\ fLoading' = TRUE
    /\ fError' = NoValue
    /\ fCalls' = Append(fCalls, [criteria |-> fCriteria, state |-> "pending"])
    /\ UNCHANGED <<fCriteria, fResults>>
    /\ UNCHANGED notHook

\* The searchParts promise of call k settles: setResults on success,
\* setError on failure, then setLoading(false) in finally.
HookSettles(k) ==
    /\ fCalls[k].state = "pending"
    /\ \E outcome \in {"resolved", "rejected"} :
        /\ fCalls' = [fCalls EXCEPT ![k].state = outcome]
        /\ IF outcome = "resolved"
           THEN /\ fResults' = [of |-> k, criteria |-> fCalls[k].criteria]
                /\ fError' = fError
           ELSE /\ fError' = [of |-> k, criteria |-> fCalls[k].criteria]
                /\ fResults' = fResults
    /\ fLoading' = FALSE
    /\ UNCHANGED fCriteria
    /\ UNCHANGED notHook

HookNext ==
    \/ UpdateCriteria
    \/ HookSearch
    \/ \E k \in DOMAIN fCalls : HookSettles(k)

SpecHook == HookInit /\ [][HookNext]_vars

Pending == {k \in DOMAIN fCalls : fCalls[k].state = "pending"}

(***************************************************************************)
(* C26: in usePartsSearch the loading flag is true whenever at least one    *)
(* search() call still awaits its client.searchParts result and false only  *)
(* when none does, also when several calls overlap and complete in any      *)
(* order.                                                                   *)
(***************************************************************************)
C26_LoadingWhilePending == fLoading = (Pending # {})

(***************************************************************************)
(* C27: in usePartsSearch, once all outstanding search() calls have         *)
(* settled, results and error reflect the search issued last: a response to *)
(* an earlier search that arrives after the response to a later one never   *)
(* overwrites the later search's results or error.                          *)
(***************************************************************************)
C27_LastSearchWins ==
    (fCalls # <<>> /\ Pending = {}) =>
        IF fCalls[Len(fCalls)].state = "resolved"
        THEN fResults.of = Len(fCalls) /\ fError = NoValue
        ELSE fError.of = Len(fCalls)

====
